---------------------------- MODULE Spec2Model ----------------------------
(***************************************************************************)
(* A model of the Citus distributed planner                                *)
(* (src/backend/distributed/planner/distributed_planner.c).                *)
(*                                                                         *)
(* Query trees are kept in an arena: a function from node ids to Query     *)
(* records.  A sub-select (a subquery range-table entry, a sublink, a CTE  *)
(* body) is named by the id of its Query node, so that the in-place        *)
(* overwrite memcpy(query, resultQuery) of the planner is an update of one *)
(* arena cell.                                                             *)
(*                                                                         *)
(* The module holds several specifications over the same variables:        *)
(*   SpecClassify  NeedsDistributedPlanning on query trees                 *)
(*   SpecResult    BuildSubPlanResultQuery on target lists                 *)
(*   SpecIdent     AssignRTEIdentities on a tree, its rewrite and its copy *)
(*   SpecJoin      the outer-join step of the orchestrator on a join tree  *)
(*   SpecPass      the CTE step and one whole pass of the orchestrator     *)
(*   SpecFinalize  FinalizePlan on a local plan and a plan descriptor      *)
(*   SpecLoop      the non-colocated-join loop of a pass, turn by turn     *)
(*   SpecDecide    ShouldRecursivelyPlanSubquery on a nested query         *)
(*   Spec          distributed_planner on a statement, nested calls and    *)
(*                 re-planning passes included                             *)
(* Each specification leaves the variables of the others idle.             *)
(***************************************************************************)
EXTENDS Integers, Sequences, FiniteSets, TLC

VARIABLES
    cInput,     \* SpecClassify: the statement handed to NeedsDistributedPlanning
    cResult,    \* SpecClassify: its outcome ("none" before the call)
    rSubquery,  \* SpecResult: the subquery handed to BuildSubPlanResultQuery
    rResult,    \* SpecResult: <<the result query built>> (<<>> before the call)
    iParse,     \* SpecIdent: the tree handed to the planner (parse)
    iOriginal,  \* SpecIdent: <<originalQuery>>, the copy the orchestrator rewrites
    iNew,       \* SpecIdent: <<newQuery>>, the copy made for the re-planning pass
    iSubPlans,  \* SpecIdent: number of subqueries replaced in originalQuery
    jQuery,     \* SpecJoin: the tree whose top-level query has the join tree
    jContext,   \* SpecJoin: <<the context after the outer-join step>>
    oQuery,     \* SpecPass: the tree handed to the orchestrator
    oConfig,    \* SpecPass: the settings (GUCs) the orchestrator runs under
    oStep,      \* SpecPass: the step that has run ("none" before it)
    oResult,    \* SpecPass: <<the context and error the step ended with>>
    fLocalPlan, \* SpecFinalize: the plan of the host planner (localPlan)
    fDistributedPlan,  \* SpecFinalize: the plan descriptor
    fLogLevel,  \* SpecFinalize: the setting MultiTaskQueryLogLevel
    fResult,    \* SpecFinalize: <<the final plan>> (<<>> before the call)
    plannerRestrictionContextList,  \* Spec: the stack of restriction contexts
    NextPlanId, \* Spec: the plan id counter of the backend
    frames,     \* Spec: the planner calls in progress, innermost last
    pConfig,    \* Spec: the settings (GUCs) of the session
    pInput,     \* Spec: <<the statement handed to the planner>>
    subPlanLog, \* Spec: the sub-plans the nested planner calls have returned
    lastExit    \* Spec: <<how the planner call that ended last ended>>

classifyVars == <<cInput, cResult>>

resultVars == <<rSubquery, rResult>>

identVars == <<iParse, iOriginal, iNew, iSubPlans>>

joinVars == <<jQuery, jContext>>

passVars == <<oQuery, oConfig, oStep, oResult>>

finalizeVars == <<fLocalPlan, fDistributedPlan, fLogLevel, fResult>>

planVars ==
    <<plannerRestrictionContextList, NextPlanId, frames, pConfig, pInput,
      subPlanLog, lastExit>>

vars ==
    <<classifyVars, resultVars, identVars, joinVars, passVars, finalizeVars,
      planVars>>

\* what each specification leaves alone
notClassify ==
    <<resultVars, identVars, joinVars, passVars, finalizeVars,
      planVars>>

notResult ==
    <<classifyVars, identVars, joinVars, passVars, finalizeVars,
      planVars>>

notIdent ==
    <<classifyVars, resultVars, joinVars, passVars, finalizeVars,
      planVars>>

notJoin ==
    <<classifyVars, resultVars, identVars, passVars, finalizeVars,
      planVars>>

notPlan ==
    <<classifyVars, resultVars, identVars, joinVars, passVars, finalizeVars>>

notPass ==
    <<classifyVars, resultVars, identVars, joinVars, finalizeVars, planVars>>

notFinalize ==
    <<classifyVars, resultVars, identVars, joinVars, passVars, planVars>>

(***************************************************************************)
(* Bounds of the model.                                                    *)
(***************************************************************************)
\* longest range table of the top-level query of a classified statement
MaxRels == 2

\* longest target list of a materialized subquery
MaxColumns == 3

\* width in bits of Oid and int32 in the model (32 in the program; the
\* model checker's own integers are 32 bits wide, so the width is scaled)
OidWidth == 16

(***************************************************************************)
(* Generic helpers.                                                        *)
(***************************************************************************)
SeqsUpTo(S, n) == UNION {[1..k -> S] : k \in 0..n}

Range(s) == {s[i] : i \in DOMAIN s}

RECURSIVE Concat(_)
Concat(ss) == IF ss = <<>> THEN <<>> ELSE Head(ss) \o Concat(Tail(ss))

(***************************************************************************)
(* The metadata catalog: which relations are distributed and how.          *)
(***************************************************************************)
RelationIds == {"dist_a", "dist_b", "append_c", "ref_r", "local_l", "view_v"}

\* IsDistributedTable(relationId): the relation has a pg_dist_partition entry
IsDistributedTable(relationId) ==
    relationId \in {"dist_a", "dist_b", "append_c", "ref_r"}

\* PartitionMethod(relationId): DISTRIBUTE_BY_NONE for reference tables
PartitionMethod(relationId) ==
    CASE relationId \in {"dist_a", "dist_b"} -> "DISTRIBUTE_BY_HASH"
      [] relationId = "append_c" -> "DISTRIBUTE_BY_APPEND"
      [] relationId = "ref_r" -> "DISTRIBUTE_BY_NONE"
      [] OTHER -> "NOT_DISTRIBUTED"

\* PartitionedTable(relationId): the relation is a partitioned table
PartitionedTable(relationId) == relationId = "dist_a"

\* relkind of a catalog relation: 'v' for views, 'p' for partitioned
\* tables, 'r' for other tables
RelKindOf(relationId) ==
    IF relationId = "view_v" THEN "RELKIND_VIEW"
    ELSE IF PartitionedTable(relationId) THEN "RELKIND_PARTITIONED_TABLE"
    ELSE "RELKIND_RELATION"

(***************************************************************************)
(* Query-tree nodes.                                                       *)
(***************************************************************************)
\* a RangeTblEntry; values_lists = <<>> is NIL (no identity assigned)
RTE(kind, relid, subquery) ==
    [rtekind |-> kind, relid |-> relid, relkind |-> RelKindOf(relid),
     subquery |-> subquery, ctename |-> "", ctelevelsup |-> 0,
     values_lists |-> <<>>, inh |-> TRUE, functions |-> <<>>]

RelationRTE(relid) == RTE("RTE_RELATION", relid, 0)

SubqueryRTE(node) == RTE("RTE_SUBQUERY", "", node)

CteRTE(name, levelsup) ==
    [RTE("RTE_CTE", "", 0) EXCEPT !.ctename = name, !.ctelevelsup = levelsup]

\* join-tree and set-operation nodes
RangeTblRef(i) == [tag |-> "RangeTblRef", rtindex |-> i]

JoinExpr(jointype, larg, rarg) ==
    [tag |-> "JoinExpr", jointype |-> jointype, larg |-> larg, rarg |-> rarg]

SetOperationStmt(op, larg, rarg) ==
    [tag |-> "SetOperationStmt", op |-> op, larg |-> larg, rarg |-> rarg]

NoNode == [tag |-> "NULL"]

\* the default FROM list of a range table: every entry, comma-joined
DefaultFromList(rtable) == [i \in 1..Len(rtable) |-> RangeTblRef(i)]

\* What the planner components outside distributed_planner.c answer about a
\* query: CreateRouterPlan (router), DeferErrorIfCannotPushdownSubquery
\* (pushdownError), TaskExecutorType = MULTI_EXECUTOR_TASK_TRACKER and
\* SingleRelationRepartitionSubquery (repartition), DeferErrorIfQueryNotSupported
\* (supported), DeferErrorIfUnsupportedUnionQuery (unsupportedUnion),
\* ContainsUnionSubquery (unionSubquery), RestrictionEquivalenceForPartitionKeys
\* on the filtered restrictions (equivalent), SafeToPushdownUnionSubquery
\* (safeUnion), FindRTEIdentityWithLeastColocatedJoins (leastColocated: the
\* smallest, the third smallest or the largest identity of the filtered
\* restrictions).  reader is what they answer about the result query that
\* replaces the query once it is materialized: "accept" (it may be pushed
\* down and its restrictions are equivalent), "pushdown_error"
\* (DeferErrorIfCannotPushdownSubquery rejects it) or "not_equivalent"
\* (RestrictionEquivalenceForPartitionKeys fails for it).
DefaultVerdict ==
    [router |-> "accept", pushdownError |-> FALSE, repartition |-> FALSE,
     supported |-> TRUE, unsupportedUnion |-> FALSE, unionSubquery |-> FALSE,
     equivalent |-> TRUE, safeUnion |-> TRUE, leastColocated |-> "min",
     reader |-> "accept"]

\* the answers about a result query, and about the result query of a
\* sub-plan that reads it
ReaderVerdict(answer) ==
    [DefaultVerdict EXCEPT !.pushdownError = (answer = "pushdown_error"),
                           !.equivalent = (answer # "not_equivalent"),
                           !.reader = answer]

\* a Query node; sublinks are the sub-selects of its expressions (target
\* list, quals), varlevelsup the largest varlevelsup / phlevelsup among the
\* Vars and PlaceHolderVars of its own expressions, externParams the
\* PARAM_EXTERN parameters of its own expressions, verdicts the answers of
\* the outside planner components about it, one per planning pass (the last
\* one for all later passes: the restriction context the answers depend on
\* is rebuilt before every re-planning pass)
Query(cmd, rtable, sublinks) ==
    [commandType |-> cmd, rtable |-> rtable, fromlist |-> DefaultFromList(rtable),
     setOperations |-> NoNode, cteList |-> <<>>,
     hasRecursive |-> FALSE, hasModifyingCTE |-> FALSE,
     sublinks |-> sublinks, varlevelsup |-> 0, hasCurrentOf |-> FALSE,
     resultRelation |-> 0, targetList |-> <<>>,
     externParams |-> <<>>, verdicts |-> <<DefaultVerdict>>]

(***************************************************************************)
(* query_tree_walker(query, walker, context, 0): the Query nodes the       *)
(* walker is called on, in call order: sublinks of the target list and the *)
(* join tree quals, then the CTE bodies, then the subqueries of the range  *)
(* table.                                                                  *)
(***************************************************************************)
RtableSubqueries(query) ==
    LET idx == {i \in 1..Len(query.rtable) : query.rtable[i].rtekind = "RTE_SUBQUERY"}
        Pick(i) == IF i \in idx THEN <<query.rtable[i].subquery>> ELSE <<>>
    IN  Concat([i \in 1..Len(query.rtable) |-> Pick(i)])

CteQueries(query) == [i \in 1..Len(query.cteList) |-> query.cteList[i].ctequery]

QueryTreeChildren(query) ==
    query.sublinks \o CteQueries(query) \o RtableSubqueries(query)

(***************************************************************************)
(* 4.2 Query classifier.                                                   *)
(***************************************************************************)
\* the foreach over query->rtable of NeedsDistributedPlanningWalker
HasDistributedRelation(query) ==
    \E i \in 1..Len(query.rtable) :
        /\ query.rtable[i].rtekind = "RTE_RELATION"
        /\ query.rtable[i].relkind # "RELKIND_VIEW"
        /\ IsDistributedTable(query.rtable[i].relid)

HasLocalRelation(query) ==
    \E i \in 1..Len(query.rtable) :
        /\ query.rtable[i].rtekind = "RTE_RELATION"
        /\ query.rtable[i].relkind # "RELKIND_VIEW"
        /\ ~IsDistributedTable(query.rtable[i].relid)

\* the walker on a Query node: "error" (ereport mixing error), "true" or
\* "false"; a walker that returns true, or raises, ends the whole walk
RECURSIVE NeedsDistributedPlanningWalker(_, _)
RECURSIVE NDPWalkChildren(_, _)
NDPWalkChildren(tree, children) ==
    IF children = <<>> THEN "false"
    ELSE LET first == NeedsDistributedPlanningWalker(tree, Head(children))
         IN  IF first # "false" THEN first
             ELSE NDPWalkChildren(tree, Tail(children))

\* mutant: the walker forgets the local/distributed mixing check
NeedsDistributedPlanningWalkerNoMixCheck(tree, node) ==
    LET query == tree[node]
    IN  IF HasDistributedRelation(query) THEN "true"
        ELSE NDPWalkChildren(tree, QueryTreeChildren(query))

NeedsDistributedPlanningWalker(tree, node) ==
    LET query == tree[node]
    IN  IF HasLocalRelation(query) /\ HasDistributedRelation(query) THEN "error"
        ELSE IF HasDistributedRelation(query) THEN "true"
        ELSE NDPWalkChildren(tree, QueryTreeChildren(query))

\* InsertSelectIntoDistributedTable / InsertSelectIntoLocalTable
\* (insert_select_planner.c): an INSERT whose FROM list holds a subquery
\* entry and whose result relation is a distributed / a local table
IsInsertSelect(query) ==
    /\ query.commandType = "CMD_INSERT"
    /\ query.resultRelation \in 1..Len(query.rtable)
    /\ \E i \in 1..Len(query.fromlist) :
          /\ query.fromlist[i].tag = "RangeTblRef"
          /\ query.rtable[query.fromlist[i].rtindex].rtekind = "RTE_SUBQUERY"

InsertSelectIntoDistributedTable(query) ==
    /\ IsInsertSelect(query)
    /\ IsDistributedTable(query.rtable[query.resultRelation].relid)

InsertSelectIntoLocalTable(query) ==
    /\ IsInsertSelect(query)
    /\ ~IsDistributedTable(query.rtable[query.resultRelation].relid)

\* mutant: the walker, and with it the mixing check, runs before the test
\* for an INSERT ... SELECT into a distributed table
NeedsDistributedPlanningWalksFirst(tree, node, citusLoaded) ==
    LET queryTree == tree[node]
        walk == NeedsDistributedPlanningWalker(tree, node)
    IN  IF queryTree.commandType \notin
               {"CMD_SELECT", "CMD_INSERT", "CMD_UPDATE", "CMD_DELETE"}
        THEN "false"
        ELSE IF ~citusLoaded THEN "false"
        ELSE IF walk = "error" THEN "error_mix_local_distributed"
        ELSE IF InsertSelectIntoDistributedTable(queryTree) THEN "true"
        ELSE IF walk = "false" THEN "false"
        ELSE IF InsertSelectIntoLocalTable(queryTree) THEN "error_insert_into_local"
        ELSE "true"

\* NeedsDistributedPlanning(queryTree): "false", "true", or the error raised
NeedsDistributedPlanning(tree, node, citusLoaded) ==
    LET queryTree == tree[node]
    IN  IF queryTree.commandType \notin
               {"CMD_SELECT", "CMD_INSERT", "CMD_UPDATE", "CMD_DELETE"}
        THEN "false"
        ELSE IF ~citusLoaded THEN "false"
        ELSE IF InsertSelectIntoDistributedTable(queryTree) THEN "true"
        ELSE LET walk == NeedsDistributedPlanningWalker(tree, node)
             IN  IF walk = "error" THEN "error_mix_local_distributed"
                 ELSE IF walk = "false" THEN "false"
                 ELSE IF InsertSelectIntoLocalTable(queryTree)
                      THEN "error_insert_into_local"
                 ELSE "true"

(***************************************************************************)
(* 4.3 RTE identity tracker.                                               *)
(***************************************************************************)
\* ExtractRangeTableEntryWalker(node, &rangeTableList): every range-table
\* entry reachable from the Query node, as <<node, rtindex>>, in walk order
\* (query_tree_walker with QTW_EXAMINE_RTES: the sub-selects of the
\* expressions, the CTE bodies, then each entry of the range table followed
\* by the entries of its subquery)
RECURSIVE ExtractRangeTableEntryWalker(_, _)
RECURSIVE ExtractFromQueries(_, _)
RECURSIVE ExtractFromRangeTable(_, _, _)
ExtractFromQueries(tree, nodes) ==
    IF nodes = <<>> THEN <<>>
    ELSE ExtractRangeTableEntryWalker(tree, Head(nodes))
            \o ExtractFromQueries(tree, Tail(nodes))

ExtractFromRangeTable(tree, node, i) ==
    IF i > Len(tree[node].rtable) THEN <<>>
    ELSE LET rte == tree[node].rtable[i]
             below == IF rte.rtekind = "RTE_SUBQUERY"
                      THEN ExtractRangeTableEntryWalker(tree, rte.subquery)
                      ELSE <<>>
         IN  <<(<<node, i>>)>> \o below \o ExtractFromRangeTable(tree, node, i + 1)

ExtractRangeTableEntryWalker(tree, node) ==
    ExtractFromQueries(tree, tree[node].sublinks \o CteQueries(tree[node]))
        \o ExtractFromRangeTable(tree, node, 1)

EntryAt(tree, place) == tree[place[1]].rtable[place[2]]

\* the relations the relation hook is called for when the tree is planned
RelationsPlanned(tree, root) ==
    LET places == ExtractRangeTableEntryWalker(tree, root)
    IN  SelectSeq([i \in 1..Len(places) |-> EntryAt(tree, places[i])],
                  LAMBDA rte : rte.rtekind = "RTE_RELATION")

\* AssignRTEIdentity: rangeTableEntry->values_lists = list_make1_int(id)
AssignRTEIdentity(tree, place, rteIdentifier) ==
    [tree EXCEPT ![place[1]].rtable[place[2]].values_lists = <<rteIdentifier>>]

\* GetRTEIdentity: linitial_int(rte->values_lists)
GetRTEIdentity(rte) == Head(rte.values_lists)

RECURSIVE AssignRTEIdentitiesFrom(_, _, _)
\* mutant: the counter advances over every extracted entry, not only over
\* the RTE_RELATION ones
AssignRTEIdentitiesFromCountsAll(tree, rangeTableList, rteIdentifier) ==
    IF rangeTableList = <<>> THEN tree
    ELSE LET place == Head(rangeTableList)
         IN  IF EntryAt(tree, place).rtekind = "RTE_RELATION"
             THEN AssignRTEIdentitiesFrom(
                      AssignRTEIdentity(tree, place, rteIdentifier),
                      Tail(rangeTableList), rteIdentifier + 1)
             ELSE AssignRTEIdentitiesFrom(tree, Tail(rangeTableList),
                                          rteIdentifier + 1)

\* the foreach of AssignRTEIdentities, from the given counter on
AssignRTEIdentitiesFrom(tree, rangeTableList, rteIdentifier) ==
    IF rangeTableList = <<>> THEN tree
    ELSE LET place == Head(rangeTableList)
         IN  IF EntryAt(tree, place).rtekind = "RTE_RELATION"
             THEN AssignRTEIdentitiesFrom(
                      AssignRTEIdentity(tree, place, rteIdentifier),
                      Tail(rangeTableList), rteIdentifier + 1)
             ELSE AssignRTEIdentitiesFrom(tree, Tail(rangeTableList), rteIdentifier)

RECURSIVE AdjustPartitioningFrom(_, _, _)
\* the foreach of AdjustPartitioningForDistributedPlanning
AdjustPartitioningFrom(tree, rangeTableList, setPartitionedTablesInherited) ==
    IF rangeTableList = <<>> THEN tree
    ELSE LET place == Head(rangeTableList)
             rangeTableEntry == EntryAt(tree, place)
         IN  IF /\ IsDistributedTable(rangeTableEntry.relid)
                /\ PartitionedTable(rangeTableEntry.relid)
             THEN AdjustPartitioningFrom(
                      [tree EXCEPT
                          ![place[1]].rtable[place[2]].inh =
                              setPartitionedTablesInherited,
                          ![place[1]].rtable[place[2]].relkind =
                              IF setPartitionedTablesInherited
                              THEN "RELKIND_PARTITIONED_TABLE"
                              ELSE "RELKIND_RELATION"],
                      Tail(rangeTableList), setPartitionedTablesInherited)
             ELSE AdjustPartitioningFrom(tree, Tail(rangeTableList),
                                         setPartitionedTablesInherited)

\* mutant: the partitioned tables are left to be expanded
AdjustPartitioningAlwaysInherited(tree, node, setPartitionedTablesInherited) ==
    AdjustPartitioningFrom(tree, ExtractRangeTableEntryWalker(tree, node), TRUE)

\* AdjustPartitioningForDistributedPlanning(queryTree, setPartitionedTablesInherited)
AdjustPartitioningForDistributedPlanning(tree, node, setPartitionedTablesInherited) ==
    AdjustPartitioningFrom(tree, ExtractRangeTableEntryWalker(tree, node),
                           setPartitionedTablesInherited)

AssignRTEIdentities(tree, node) ==
    AssignRTEIdentitiesFrom(tree, ExtractRangeTableEntryWalker(tree, node), 1)

(***************************************************************************)
(* The result reader of a sub-plan (BuildSubPlanResultQuery).              *)
(***************************************************************************)
\* Oid is an unsigned integer, int / int32 a signed one of the same width
\* (the conversions between them are the two's complement ones)
OidModulus == 2 ^ OidWidth

OidOfInt32(x) == x % OidModulus

Int32OfOid(y) == IF y >= OidModulus \div 2 THEN y - OidModulus ELSE y

\* a target-list expression, known by what exprType, exprTypmod and
\* exprCollation return for it
TargetExpr(type, typmod, collation) ==
    [type |-> type, typmod |-> typmod, collation |-> collation]

TargetEntry(expr, resname, resjunk) ==
    [expr |-> expr, resno |-> 0, resname |-> resname, resjunk |-> resjunk]

\* the state of the foreach over subquery->targetList
EmptyColumns ==
    [funcColNames |-> <<>>, funcColTypes |-> <<>>, funcColTypMods |-> <<>>,
     funcColCollations |-> <<>>, targetList |-> <<>>, columnNumber |-> 1]

\* one iteration of the loop body for a target entry that is not junk
AppendColumn(acc, targetEntry) ==
    LET columnName == targetEntry.resname
        columnType == targetEntry.expr.type
        \* Oid columnTypMod = exprTypmod(targetExpr)
        columnTypMod == OidOfInt32(targetEntry.expr.typmod)
        columnCollation == targetEntry.expr.collation
        functionColumnVar ==
            [varno |-> 1, varattno |-> acc.columnNumber, vartype |-> columnType,
             vartypmod |-> Int32OfOid(columnTypMod), varcollid |-> columnCollation,
             varlevelsup |-> 0, varnoold |-> 1, varoattno |-> acc.columnNumber]
        newTargetEntry ==
            [expr |-> functionColumnVar, resno |-> acc.columnNumber,
             resname |-> columnName, resjunk |-> FALSE]
    IN  [funcColNames |-> Append(acc.funcColNames, columnName),
         funcColTypes |-> Append(acc.funcColTypes, Int32OfOid(columnType)),
         funcColTypMods |-> Append(acc.funcColTypMods, Int32OfOid(columnTypMod)),
         funcColCollations |->
             Append(acc.funcColCollations, Int32OfOid(columnCollation)),
         targetList |-> Append(acc.targetList, newTargetEntry),
         columnNumber |-> acc.columnNumber + 1]

\* mutant: the column counter also advances over junk entries
ResultColumnsStepCountsJunk(acc, targetEntry) ==
    IF targetEntry.resjunk
    THEN [acc EXCEPT !.columnNumber = acc.columnNumber + 1]
    ELSE AppendColumn(acc, targetEntry)

\* the loop body: junk entries are skipped (continue)
ResultColumnsStep(acc, targetEntry) ==
    IF targetEntry.resjunk THEN acc ELSE AppendColumn(acc, targetEntry)

RECURSIVE ResultColumns(_, _)
ResultColumns(acc, targetList) ==
    IF targetList = <<>> THEN acc
    ELSE ResultColumns(ResultColumnsStep(acc, Head(targetList)), Tail(targetList))

\* the RTE_FUNCTION entry that reads the result file of (planId, subPlanId)
ResultFunctionRTE(columns, planId, subPlanId) ==
    [RTE("RTE_FUNCTION", "", 0) EXCEPT !.functions =
        <<[funcid |-> "read_records_file",
           resultPlanId |-> planId, resultSubPlanId |-> subPlanId,
           funccolcount |-> Len(columns.funcColNames),
           funccolnames |-> columns.funcColNames,
           funccoltypes |-> columns.funcColTypes,
           funccoltypmods |-> columns.funcColTypMods,
           funccolcollations |-> columns.funcColCollations]>>]

\* mutant: the result query keeps the range table of the subquery behind
\* the entry of the function
BuildSubPlanResultQueryKeepsRelations(subquery, planId, subPlanId) ==
    LET columns == ResultColumns(EmptyColumns, subquery.targetList)
        rangeTableEntry == ResultFunctionRTE(columns, planId, subPlanId)
    IN  [Query("CMD_SELECT", <<rangeTableEntry>>, <<>>)
            EXCEPT !.rtable = @ \o subquery.rtable,
                   !.targetList = columns.targetList,
                   !.verdicts = <<ReaderVerdict(subquery.verdicts[1].reader)>>]

BuildSubPlanResultQuery(subquery, planId, subPlanId) ==
    LET columns == ResultColumns(EmptyColumns, subquery.targetList)
        rangeTableEntry == ResultFunctionRTE(columns, planId, subPlanId)
    IN  [Query("CMD_SELECT", <<rangeTableEntry>>, <<>>)
            EXCEPT !.targetList = columns.targetList,
                   !.verdicts = <<ReaderVerdict(subquery.verdicts[1].reader)>>]

\* the settings as they are by default
DefaultConfig ==
    [SubqueryPushdown |-> FALSE, EnableRouterExecution |-> TRUE,
     MultiTaskQueryLogLevel |-> "MULTI_TASK_QUERY_INFO_OFF"]

(***************************************************************************)
(* 4.4 Pull-push orchestrator.                                             *)
(*                                                                         *)
(* The orchestrator works on a PlanPullPushContext.  In the model the      *)
(* context also holds the tree it rewrites in place (tree), the number of  *)
(* the pass (pass), the settings (config) and how far the pass has come:   *)
(* status is "running", "raised" after an ereport(ERROR) (error holds the  *)
(* message), or "suspended" when the pass has reached the budget-th call   *)
(* of the host planner for a sub-plan (budget 0: no limit), which is how   *)
(* the planner steps through a pass, one nested planner call at a time.    *)
(* joinLog records what the outer-join step saw and did at each JoinExpr.  *)
(***************************************************************************)
PlanPullPushContext(planId, tree, pass, config, budget) ==
    [planId |-> planId, level |-> 0, subPlanList |-> <<>>,
     tree |-> tree, pass |-> pass, config |-> config, budget |-> budget,
     status |-> "running", error |-> "", joinLog |-> <<>>]

Running(context) == context.status = "running"

\* ereport(ERROR, ...)
Raise(context, message) ==
    IF Running(context)
    THEN [context EXCEPT !.status = "raised", !.error = message]
    ELSE context

VerdictOf(query, pass) ==
    query.verdicts[IF pass <= Len(query.verdicts) THEN pass ELSE Len(query.verdicts)]

\* ContainsReferencesToOuterQueryWalker below a Query node entered at `level`
RECURSIVE ContainsReferencesToOuterQueryWalker(_, _, _)
ContainsReferencesToOuterQueryWalker(tree, node, level) ==
    \/ tree[node].varlevelsup > level
    \/ tree[node].hasCurrentOf
    \/ \E child \in Range(QueryTreeChildren(tree[node])) :
          ContainsReferencesToOuterQueryWalker(tree, child, level + 1)

ContainsReferencesToOuterQuery(tree, node) ==
    ContainsReferencesToOuterQueryWalker(tree, node, 0)

\* ContainsResultFunction: a read_records_file call anywhere in the query
RECURSIVE ContainsResultFunctionWalker(_, _)
ContainsResultFunctionWalker(tree, node) ==
    \/ \E i \in 1..Len(tree[node].rtable) :
          \E f \in Range(tree[node].rtable[i].functions) :
              f.funcid = "read_records_file"
    \/ \E child \in Range(QueryTreeChildren(tree[node])) :
          ContainsResultFunctionWalker(tree, child)

ContainsResultFunction(tree, node) == ContainsResultFunctionWalker(tree, node)

\* mutant: the partition method is not looked at
IsDistributedTableRTEAnyMethod(rangeTableEntry) ==
    /\ rangeTableEntry.rtekind = "RTE_RELATION"
    /\ IsDistributedTable(rangeTableEntry.relid)

IsDistributedTableRTE(rangeTableEntry) ==
    /\ rangeTableEntry.rtekind = "RTE_RELATION"
    /\ IsDistributedTable(rangeTableEntry.relid)
    /\ PartitionMethod(rangeTableEntry.relid) # "DISTRIBUTE_BY_NONE"

RECURSIVE QueryContainsDistributedTableRTE(_, _)
QueryContainsDistributedTableRTE(tree, node) ==
    \E i \in 1..Len(tree[node].rtable) :
        LET rangeTableEntry == tree[node].rtable[i]
        IN  \/ IsDistributedTableRTE(rangeTableEntry)
            \/ /\ rangeTableEntry.rtekind = "RTE_SUBQUERY"
               /\ QueryContainsDistributedTableRTE(tree, rangeTableEntry.subquery)

RECURSIVE JoinTreeContainsDistributedTableRTE(_, _, _)
JoinTreeContainsDistributedTableRTE(tree, node, joinTreeNode) ==
    CASE joinTreeNode.tag = "JoinExpr" ->
            \/ JoinTreeContainsDistributedTableRTE(tree, node, joinTreeNode.larg)
            \/ JoinTreeContainsDistributedTableRTE(tree, node, joinTreeNode.rarg)
      [] joinTreeNode.tag = "RangeTblRef" ->
            LET rangeTableEntry == tree[node].rtable[joinTreeNode.rtindex]
            IN  \/ IsDistributedTableRTE(rangeTableEntry)
                \/ /\ rangeTableEntry.rtekind = "RTE_SUBQUERY"
                   /\ QueryContainsDistributedTableRTE(tree, rangeTableEntry.subquery)
      [] OTHER -> FALSE

\* mutant: the node is overwritten by the result query before the setting
\* is looked at
RecursivelyPlanQueryOverwritesFirst(context, node, site, cause) ==
    IF ~Running(context) THEN context
    ELSE LET subPlanId == Len(context.subPlanList)
             resultQuery == BuildSubPlanResultQuery(context.tree[node],
                                                    context.planId, subPlanId)
             subPlan == [planId |-> context.planId, subPlanId |-> subPlanId,
                         node |-> node, site |-> site, cause |-> cause,
                         treeAtCall |-> context.tree,
                         forceDistributed |-> ContainsResultFunction(context.tree, node)]
             overwritten == [context EXCEPT !.tree[node] = resultQuery]
         IN  IF ~context.config.EnableRouterExecution
             THEN Raise(overwritten, "cannot handle complex subqueries when the router executor is disabled")
             ELSE [overwritten EXCEPT
                      !.subPlanList = Append(@, subPlan),
                      !.status = IF subPlanId + 1 = context.budget
                                 THEN "suspended" ELSE "running"]

\* mutant: the sub-plan is made and the node is left as it is
RecursivelyPlanQueryKeepsNode(context, node, site, cause) ==
    IF ~Running(context) THEN context
    ELSE IF ~context.config.EnableRouterExecution
    THEN Raise(context, "cannot handle complex subqueries when the router executor is disabled")
    ELSE LET subPlanId == Len(context.subPlanList)
             subPlan == [planId |-> context.planId, subPlanId |-> subPlanId,
                         node |-> node, site |-> site, cause |-> cause,
                         treeAtCall |-> context.tree,
                         forceDistributed |-> ContainsResultFunction(context.tree, node)]
         IN  [context EXCEPT
                 !.subPlanList = Append(@, subPlan),
                 !.status = IF subPlanId + 1 = context.budget
                            THEN "suspended" ELSE "running"]

\* RecursivelyPlanQuery together with the lappend every caller does: the
\* sub-plan records the copy handed to planner() (the node as it stands in
\* treeAtCall) and the step that asked for it; the node is then overwritten
\* by the result query
RecursivelyPlanQuery(context, node, site, cause) ==
    IF ~Running(context) THEN context
    ELSE IF ~context.config.EnableRouterExecution
    THEN Raise(context, "cannot handle complex subqueries when the router executor is disabled")
    ELSE LET subPlanId == Len(context.subPlanList)
             resultQuery == BuildSubPlanResultQuery(context.tree[node],
                                                    context.planId, subPlanId)
             subPlan == [planId |-> context.planId, subPlanId |-> subPlanId,
                         node |-> node, site |-> site, cause |-> cause,
                         treeAtCall |-> context.tree,
                         forceDistributed |-> ContainsResultFunction(context.tree, node)]
         IN  [context EXCEPT
                 !.tree[node] = resultQuery,
                 !.subPlanList = Append(@, subPlan),
                 !.status = IF subPlanId + 1 = context.budget
                            THEN "suspended" ELSE "running"]

\* mutant: a leaf is planned whether or not it holds a distributed table
RecursivelyPlanLeafAnySubquery(context, node, rangeTableRef, site, cause) ==
    IF ~Running(context) THEN context
    ELSE LET rangeTableEntry == context.tree[node].rtable[rangeTableRef.rtindex]
         IN  IF rangeTableEntry.rtekind = "RTE_SUBQUERY"
             THEN RecursivelyPlanQuery(context, rangeTableEntry.subquery, site, cause)
             ELSE context

\* the leaf case of RecursivelyPlanSetOperations and RecursivelyPlanJoinTree
RecursivelyPlanLeaf(context, node, rangeTableRef, site, cause) ==
    IF ~Running(context) THEN context
    ELSE LET rangeTableEntry == context.tree[node].rtable[rangeTableRef.rtindex]
         IN  IF /\ rangeTableEntry.rtekind = "RTE_SUBQUERY"
                /\ QueryContainsDistributedTableRTE(context.tree,
                                                    rangeTableEntry.subquery)
             THEN RecursivelyPlanQuery(context, rangeTableEntry.subquery, site, cause)
             ELSE context

RECURSIVE RecursivelyPlanSetOperations(_, _, _)
\* mutant: the right operand is gone through before the left one
RecursivelyPlanSetOperationsRightFirst(context, node, setOpNode) ==
    CASE setOpNode.tag = "SetOperationStmt" ->
            RecursivelyPlanSetOperations(
                RecursivelyPlanSetOperations(context, node, setOpNode.rarg),
                node, setOpNode.larg)
      [] setOpNode.tag = "RangeTblRef" ->
            RecursivelyPlanLeaf(context, node, setOpNode, "set_operation", NoNode)
      [] OTHER -> context

\* RecursivelyPlanSetOperations: the left operand, then the right one
RecursivelyPlanSetOperations(context, node, setOpNode) ==
    CASE setOpNode.tag = "SetOperationStmt" ->
            RecursivelyPlanSetOperations(
                RecursivelyPlanSetOperations(context, node, setOpNode.larg),
                node, setOpNode.rarg)
      [] setOpNode.tag = "RangeTblRef" ->
            RecursivelyPlanLeaf(context, node, setOpNode, "set_operation", NoNode)
      [] OTHER -> context

\* RecursivelyPlanJoinTree: the right argument first, then the left one
RECURSIVE RecursivelyPlanJoinTree(_, _, _, _)
RecursivelyPlanJoinTree(context, node, joinTreeNode, cause) ==
    CASE joinTreeNode.tag = "JoinExpr" ->
            RecursivelyPlanJoinTree(
                RecursivelyPlanJoinTree(context, node, joinTreeNode.rarg, cause),
                node, joinTreeNode.larg, cause)
      [] joinTreeNode.tag = "RangeTblRef" ->
            RecursivelyPlanLeaf(context, node, joinTreeNode, "outer_join", cause)
      [] OTHER -> context

\* the switch of RecursivelyPlanRecurringOuterJoins: the arguments handed to
\* RecursivelyPlanJoinTree, in call order, and the two flags after the switch
\* mutant: an INNER join is treated like a LEFT join
RecurringOuterJoinSwitchInnerAsLeft(joinType, leftRecurs, rightRecurs) ==
    IF joinType \in {"JOIN_LEFT", "JOIN_INNER"} /\ leftRecurs /\ ~rightRecurs
    THEN [planned |-> <<"rarg">>, leftRecurs |-> leftRecurs, rightRecurs |-> TRUE]
    ELSE IF joinType = "JOIN_RIGHT" /\ ~leftRecurs /\ rightRecurs
    THEN [planned |-> <<"larg">>, leftRecurs |-> TRUE, rightRecurs |-> rightRecurs]
    ELSE [planned |-> <<>>, leftRecurs |-> leftRecurs, rightRecurs |-> rightRecurs]

\* mutant: a LEFT join is treated like a RIGHT join
RecurringOuterJoinSwitchLeftAsRight(joinType, leftRecurs, rightRecurs) ==
    IF joinType \in {"JOIN_LEFT", "JOIN_RIGHT"} /\ ~leftRecurs /\ rightRecurs
    THEN [planned |-> <<"larg">>, leftRecurs |-> TRUE, rightRecurs |-> rightRecurs]
    ELSE [planned |-> <<>>, leftRecurs |-> leftRecurs, rightRecurs |-> rightRecurs]

\* mutant: at a LEFT or RIGHT join the side that is not recurring is
\* planned whichever side it is
RecurringOuterJoinSwitchEitherSide(joinType, leftRecurs, rightRecurs) ==
    IF joinType \in {"JOIN_LEFT", "JOIN_RIGHT"} /\ leftRecurs /\ ~rightRecurs
    THEN [planned |-> <<"rarg">>, leftRecurs |-> leftRecurs, rightRecurs |-> TRUE]
    ELSE IF joinType \in {"JOIN_LEFT", "JOIN_RIGHT"} /\ ~leftRecurs /\ rightRecurs
    THEN [planned |-> <<"larg">>, leftRecurs |-> TRUE, rightRecurs |-> rightRecurs]
    ELSE [planned |-> <<>>, leftRecurs |-> leftRecurs, rightRecurs |-> rightRecurs]

RecurringOuterJoinSwitch(joinType, leftRecurs, rightRecurs) ==
    CASE joinType = "JOIN_LEFT" ->
            IF leftRecurs /\ ~rightRecurs
            THEN [planned |-> <<"rarg">>, leftRecurs |-> leftRecurs,
                  rightRecurs |-> TRUE]
            ELSE [planned |-> <<>>, leftRecurs |-> leftRecurs,
                  rightRecurs |-> rightRecurs]
      [] joinType = "JOIN_RIGHT" ->
            IF ~leftRecurs /\ rightRecurs
            THEN [planned |-> <<"larg">>, leftRecurs |-> TRUE,
                  rightRecurs |-> rightRecurs]
            ELSE [planned |-> <<>>, leftRecurs |-> leftRecurs,
                  rightRecurs |-> rightRecurs]
      [] joinType = "JOIN_FULL" ->
            \* both ifs hand joinExpr->rarg to RecursivelyPlanJoinTree; the
            \* second one sees the flags as the first one left them
            IF leftRecurs /\ ~rightRecurs
            THEN [planned |-> <<"rarg">>, leftRecurs |-> leftRecurs,
                  rightRecurs |-> TRUE]
            ELSE IF ~leftRecurs /\ rightRecurs
            THEN [planned |-> <<"rarg">>, leftRecurs |-> TRUE,
                  rightRecurs |-> rightRecurs]
            ELSE [planned |-> <<>>, leftRecurs |-> leftRecurs,
                  rightRecurs |-> rightRecurs]
      [] OTHER ->
            [planned |-> <<>>, leftRecurs |-> leftRecurs, rightRecurs |-> rightRecurs]

RECURSIVE PlanJoinSides(_, _, _, _)
PlanJoinSides(context, node, joinExpr, planned) ==
    IF planned = <<>> THEN context
    ELSE PlanJoinSides(
             RecursivelyPlanJoinTree(context, node,
                 IF Head(planned) = "larg" THEN joinExpr.larg ELSE joinExpr.rarg,
                 joinExpr),
             node, joinExpr, Tail(planned))

RECURSIVE RecursivelyPlanRecurringOuterJoins(_, _, _)
RecursivelyPlanRecurringOuterJoins(context, node, joinTreeNode) ==
    IF ~Running(context) \/ joinTreeNode.tag # "JoinExpr" THEN context
    ELSE LET joinExpr == joinTreeNode
             leftRecurs == ~JoinTreeContainsDistributedTableRTE(
                                context.tree, node, joinExpr.larg)
             rightRecurs == ~JoinTreeContainsDistributedTableRTE(
                                 context.tree, node, joinExpr.rarg)
             switch == RecurringOuterJoinSwitch(joinExpr.jointype,
                                                leftRecurs, rightRecurs)
             seen == [context EXCEPT !.joinLog = Append(@,
                         [joinExpr |-> joinExpr, node |-> node,
                          leftRecurs |-> leftRecurs, rightRecurs |-> rightRecurs,
                          planned |-> switch.planned,
                          treeSeen |-> context.tree])]
             after == PlanJoinSides(seen, node, joinExpr, switch.planned)
         IN  IF switch.leftRecurs /\ switch.rightRecurs THEN after
             ELSE RecursivelyPlanRecurringOuterJoins(
                      RecursivelyPlanRecurringOuterJoins(after, node, joinExpr.larg),
                      node, joinExpr.rarg)

\* the foreach over fromExpr->fromlist at the end of PlanPullPushSubqueries
RECURSIVE PlanRecurringOuterJoinsOfFromList(_, _, _)
PlanRecurringOuterJoinsOfFromList(context, node, fromlist) ==
    IF fromlist = <<>> THEN context
    ELSE PlanRecurringOuterJoinsOfFromList(
             RecursivelyPlanRecurringOuterJoins(context, node, Head(fromlist)),
             node, Tail(fromlist))

\* CteReferenceListWalker: the RTE_CTE entries whose ctelevelsup is the
\* number of query levels between them and the query the walk started at
RECURSIVE CteReferenceListWalker(_, _, _)
RECURSIVE CteReferencesOfQueries(_, _, _)
RECURSIVE CteReferencesOfRangeTable(_, _, _, _)
CteReferencesOfQueries(tree, nodes, level) ==
    IF nodes = <<>> THEN <<>>
    ELSE CteReferenceListWalker(tree, Head(nodes), level)
            \o CteReferencesOfQueries(tree, Tail(nodes), level)

CteReferencesOfRangeTable(tree, node, i, level) ==
    IF i > Len(tree[node].rtable) THEN <<>>
    ELSE LET rangeTableEntry == tree[node].rtable[i]
             here == IF /\ rangeTableEntry.rtekind = "RTE_CTE"
                        /\ rangeTableEntry.ctelevelsup = level
                     THEN <<(<<node, i>>)>> ELSE <<>>
             below == IF rangeTableEntry.rtekind = "RTE_SUBQUERY"
                      THEN CteReferenceListWalker(tree, rangeTableEntry.subquery,
                                                  level + 1)
                      ELSE <<>>
         IN  here \o below \o CteReferencesOfRangeTable(tree, node, i + 1, level)

CteReferenceListWalker(tree, node, level) ==
    CteReferencesOfQueries(tree, tree[node].sublinks \o CteQueries(tree[node]),
                           level + 1)
        \o CteReferencesOfRangeTable(tree, node, 1, level)

\* mutant: the name of the CTE is not compared
RECURSIVE ReplaceCteReferencesAnyName(_, _, _, _)
ReplaceCteReferencesAnyName(tree, cteReferenceList, cteName, resultQuery) ==
    IF cteReferenceList = <<>> THEN tree
    ELSE LET place == Head(cteReferenceList)
             rangeTableEntry == EntryAt(tree, place)
             copy == Len(tree) + 1
             replaced ==
                 [Append(tree, resultQuery) EXCEPT ![place[1]].rtable[place[2]] =
                     [rangeTableEntry EXCEPT !.rtekind = "RTE_SUBQUERY",
                                             !.subquery = copy,
                                             !.ctename = "",
                                             !.ctelevelsup = 0]]
         IN  IF rangeTableEntry.rtekind = "RTE_CTE"
             THEN ReplaceCteReferencesAnyName(replaced, Tail(cteReferenceList),
                                              cteName, resultQuery)
             ELSE ReplaceCteReferencesAnyName(tree, Tail(cteReferenceList),
                                              cteName, resultQuery)

\* the inner foreach of PlanPullPushCTEs: every listed entry that still is
\* an RTE_CTE of that name becomes a subquery entry over its own copy of the
\* result query (a new node of the arena)
RECURSIVE ReplaceCteReferences(_, _, _, _)
ReplaceCteReferences(tree, cteReferenceList, cteName, resultQuery) ==
    IF cteReferenceList = <<>> THEN tree
    ELSE LET place == Head(cteReferenceList)
             rangeTableEntry == EntryAt(tree, place)
             copy == Len(tree) + 1
             replaced ==
                 [Append(tree, resultQuery) EXCEPT ![place[1]].rtable[place[2]] =
                     [rangeTableEntry EXCEPT !.rtekind = "RTE_SUBQUERY",
                                             !.subquery = copy,
                                             !.ctename = "",
                                             !.ctelevelsup = 0]]
         IN  IF rangeTableEntry.rtekind = "RTE_CTE" /\ rangeTableEntry.ctename = cteName
             THEN ReplaceCteReferences(replaced, Tail(cteReferenceList),
                                       cteName, resultQuery)
             ELSE ReplaceCteReferences(tree, Tail(cteReferenceList),
                                       cteName, resultQuery)

RECURSIVE PlanCteList(_, _, _, _)
\* mutant: the references of a CTE to outer queries are looked for after
\* the references to the CTE have been replaced
PlanCteListChecksOuterReferenceLast(context, node, cteReferenceList, i) ==
    IF ~Running(context) \/ i > Len(context.tree[node].cteList) THEN context
    ELSE LET cte == context.tree[node].cteList[i]
             subquery == cte.ctequery
             subPlanId == Len(context.subPlanList)
             resultQuery == BuildSubPlanResultQuery(context.tree[subquery],
                                                    context.planId, subPlanId)
             replaced == [context EXCEPT !.tree =
                             ReplaceCteReferences(context.tree, cteReferenceList,
                                                  cte.ctename, resultQuery)]
             subPlan == [planId |-> context.planId, subPlanId |-> subPlanId,
                         node |-> subquery, site |-> "cte", cause |-> NoNode,
                         treeAtCall |-> context.tree,
                         forceDistributed |->
                             ContainsResultFunction(context.tree, subquery)]
         IN  IF ContainsReferencesToOuterQuery(context.tree, subquery)
             THEN Raise(replaced, "CTEs that refer to other subqueries are not supported in multi-shard queries")
             ELSE IF ~context.config.EnableRouterExecution
             THEN Raise(replaced, "cannot handle CTEs when the router executor is disabled")
             ELSE PlanCteList(
                      [replaced EXCEPT
                          !.subPlanList = Append(@, subPlan),
                          !.status = IF subPlanId + 1 = context.budget
                                     THEN "suspended" ELSE "running"],
                      node, cteReferenceList, i + 1)

\* the foreach over query->cteList of PlanPullPushCTEs, from the i-th CTE on
PlanCteList(context, node, cteReferenceList, i) ==
    IF ~Running(context) \/ i > Len(context.tree[node].cteList) THEN context
    ELSE LET cte == context.tree[node].cteList[i]
             subquery == cte.ctequery
             subPlanId == Len(context.subPlanList)
             resultQuery == BuildSubPlanResultQuery(context.tree[subquery],
                                                    context.planId, subPlanId)
             replaced == [context EXCEPT !.tree =
                             ReplaceCteReferences(context.tree, cteReferenceList,
                                                  cte.ctename, resultQuery)]
             subPlan == [planId |-> context.planId, subPlanId |-> subPlanId,
                         node |-> subquery, site |-> "cte", cause |-> NoNode,
                         treeAtCall |-> context.tree,
                         forceDistributed |->
                             ContainsResultFunction(context.tree, subquery)]
         IN  IF ContainsReferencesToOuterQuery(context.tree, subquery)
             THEN Raise(context, "CTEs that refer to other subqueries are not supported in multi-shard queries")
             ELSE IF ~context.config.EnableRouterExecution
             THEN Raise(replaced, "cannot handle CTEs when the router executor is disabled")
             ELSE PlanCteList(
                      [replaced EXCEPT
                          !.subPlanList = Append(@, subPlan),
                          !.status = IF subPlanId + 1 = context.budget
                                     THEN "suspended" ELSE "running"],
                      node, cteReferenceList, i + 1)

ModifyingCteError ==
    "data-modifying statements are not supported in the WITH clauses of distributed queries"

RecursiveCteError == "recursive CTEs are not supported in distributed queries"

\* mutant: the CTEs are planned before the two flags are looked at
PlanPullPushCTEsChecksFlagsLast(context, node) ==
    LET query == context.tree[node]
        planned == PlanCteList(context, node,
                               CteReferenceListWalker(context.tree, node, 0), 1)
    IN  [context |-> planned,
         error |-> IF query.hasModifyingCTE THEN ModifyingCteError
                   ELSE IF query.hasRecursive THEN RecursiveCteError
                   ELSE ""]

\* PlanPullPushCTEs: the context afterwards and the deferred error returned
\* ("" for NULL)
PlanPullPushCTEs(context, node) ==
    LET query == context.tree[node]
        planned == PlanCteList(context, node,
                               CteReferenceListWalker(context.tree, node, 0), 1)
    IN  IF query.hasModifyingCTE
        THEN [context |-> context, error |-> ModifyingCteError]
        ELSE IF query.hasRecursive
        THEN [context |-> context, error |-> RecursiveCteError]
        ELSE [context |-> IF Running(planned)
                          THEN [planned EXCEPT !.tree[node].cteList = <<>>]
                          ELSE planned,
              error |-> ""]

\* the identities of the base relations of a query, subqueries included
QueryRteIdentities(tree, node) ==
    LET places == ExtractRangeTableEntryWalker(tree, node)
    IN  {GetRTEIdentity(EntryAt(tree, places[i])) :
            i \in {j \in 1..Len(places) :
                     EntryAt(tree, places[j]).rtekind = "RTE_RELATION"}}

\* the identities of the relation restrictions left by
\* FilterPlannerRestrictionForQuery: those of the distributed tables of the
\* query
FilteredRteIdentities(tree, node) ==
    LET places == ExtractRangeTableEntryWalker(tree, node)
    IN  {GetRTEIdentity(EntryAt(tree, places[i])) :
            i \in {j \in 1..Len(places) :
                     IsDistributedTableRTE(EntryAt(tree, places[j]))}}

\* RestrictionEquivalenceForPartitionKeys on the filtered restrictions:
\* fewer than two distributed relations are always equivalent
RestrictionEquivalenceForPartitionKeys(context, node) ==
    \/ Cardinality(FilteredRteIdentities(context.tree, node)) < 2
    \/ VerdictOf(context.tree[node], context.pass).equivalent

SetMin(S) == CHOOSE x \in S : \A y \in S : x <= y

SetMax(S) == CHOOSE x \in S : \A y \in S : x >= y

\* the n-th smallest number of a set (the largest when it has fewer)
RECURSIVE NthSmallest(_, _)
NthSmallest(S, n) ==
    IF n <= 1 \/ Cardinality(S) = 1 THEN SetMin(S)
    ELSE NthSmallest(S \ {SetMin(S)}, n - 1)

\* FindRTEIdentityWithLeastColocatedJoins on the filtered restrictions (0:
\* there is no restriction)
FindRTEIdentityWithLeastColocatedJoins(context, node) ==
    LET identities == FilteredRteIdentities(context.tree, node)
        leastColocated == VerdictOf(context.tree[node], context.pass).leastColocated
    IN  IF identities = {} THEN 0
        ELSE CASE leastColocated = "min" -> SetMin(identities)
               [] leastColocated = "third" -> NthSmallest(identities, 3)
               [] OTHER -> SetMax(identities)

\* SubqueryEntryList: the subquery entries of the range table
SubqueryEntryList(query) ==
    SelectSeq(query.rtable, LAMBDA rte : rte.rtekind = "RTE_SUBQUERY")

MixError == "cannot plan queries which join local and distributed relations"

\* mutant: with pushdown disallowed the query shape is looked at before the
\* repartition candidate
ShouldRecursivelyPlanSubquerySupportedFirst(context, node) ==
    LET query == context.tree[node]
        verdict == VerdictOf(query, context.pass)
        needsDistributedPlanning == NeedsDistributedPlanning(context.tree, node, TRUE)
    IN  IF ContainsReferencesToOuterQuery(context.tree, node) THEN "false"
        ELSE IF verdict.pushdownError
        THEN IF needsDistributedPlanning \notin {"true", "false"} THEN "error"
             ELSE IF needsDistributedPlanning = "false" THEN "true"
             ELSE IF verdict.supported THEN "true"
             ELSE "false"
        ELSE IF /\ ~verdict.unionSubquery
                /\ verdict.supported
                /\ SubqueryEntryList(query) = <<>>
                /\ ~RestrictionEquivalenceForPartitionKeys(context, node)
        THEN "true"
        ELSE "false"

\* "true", "false", or "error" when NeedsDistributedPlanning raises
ShouldRecursivelyPlanSubquery(context, node) ==
    LET query == context.tree[node]
        verdict == VerdictOf(query, context.pass)
        needsDistributedPlanning == NeedsDistributedPlanning(context.tree, node, TRUE)
    IN  IF ContainsReferencesToOuterQuery(context.tree, node) THEN "false"
        ELSE IF verdict.pushdownError
        THEN IF needsDistributedPlanning \notin {"true", "false"} THEN "error"
             ELSE IF needsDistributedPlanning = "false" THEN "true"
             ELSE IF verdict.repartition THEN "false"
             ELSE IF verdict.supported THEN "true"
             ELSE "false"
        ELSE IF /\ ~verdict.unionSubquery
                /\ verdict.supported
                /\ SubqueryEntryList(query) = <<>>
                /\ ~RestrictionEquivalenceForPartitionKeys(context, node)
        THEN "true"
        ELSE "false"

\* mutant: a sub-select that holds the identity is descended into, and the
\* innermost query that holds it is planned
RECURSIVE ReplaceSubqueryViaRTEIdentityInnermost(_, _, _)
ReplaceSubqueryViaRTEIdentityInnermost(context, nodes, rteIdentity) ==
    IF nodes = <<>> THEN [context |-> context, replaced |-> FALSE]
    ELSE IF rteIdentity \in QueryRteIdentities(context.tree, Head(nodes))
    THEN LET inner == ReplaceSubqueryViaRTEIdentityInnermost(context,
                          QueryTreeChildren(context.tree[Head(nodes)]), rteIdentity)
         IN  IF inner.replaced THEN inner
             ELSE [context |-> RecursivelyPlanQuery(context, Head(nodes),
                                                    "non_colocated_join", NoNode),
                   replaced |-> TRUE]
    ELSE ReplaceSubqueryViaRTEIdentityInnermost(context, Tail(nodes), rteIdentity)

\* ReplaceSubqueryViaRTEIdentity: query_tree_walker hands the sub-selects of
\* the query to the walker one by one; the first one that holds the identity
\* is planned; a sub-select that does not hold it is not descended into
RECURSIVE ReplaceSubqueryViaRTEIdentity(_, _, _)
ReplaceSubqueryViaRTEIdentity(context, nodes, rteIdentity) ==
    IF nodes = <<>> THEN [context |-> context, replaced |-> FALSE]
    ELSE IF rteIdentity \in QueryRteIdentities(context.tree, Head(nodes))
    THEN [context |-> RecursivelyPlanQuery(context, Head(nodes),
                                           "non_colocated_join", NoNode),
          replaced |-> TRUE]
    ELSE ReplaceSubqueryViaRTEIdentity(context, Tail(nodes), rteIdentity)

ReplaceNonColocatedJoin(context, node) ==
    LET needsDistributedPlanning == NeedsDistributedPlanning(context.tree, node, TRUE)
        rteMin == FindRTEIdentityWithLeastColocatedJoins(context, node)
    IN  IF needsDistributedPlanning \notin {"true", "false"}
        THEN [context |-> Raise(context, MixError), replaced |-> FALSE]
        ELSE IF /\ needsDistributedPlanning = "true"
                /\ ~ContainsReferencesToOuterQuery(context.tree, node)
        THEN ReplaceSubqueryViaRTEIdentity(context,
                 QueryTreeChildren(context.tree[node]), rteMin)
        ELSE [context |-> context, replaced |-> FALSE]

\* mutant: the loop goes on while a subquery can be replaced, whether or
\* not the filtered restrictions are equivalent
NonColocatedJoinIterationIgnoresEquivalence(context, node) ==
    IF ~Running(context) THEN [context |-> context, continue |-> FALSE]
    ELSE IF ~VerdictOf(context.tree[node], context.pass).unionSubquery
    THEN LET step == ReplaceNonColocatedJoin(context, node)
         IN  [context |-> step.context,
              continue |-> step.replaced /\ Running(step.context)]
    ELSE [context |-> context, continue |-> FALSE]

\* one turn of the while loop of PlanPullPushSubqueries: the test of the
\* loop condition and, when it holds, the body; continue says whether the
\* loop comes back to the test (an error raised in the body leaves it)
NonColocatedJoinIteration(context, node) ==
    IF ~Running(context) THEN [context |-> context, continue |-> FALSE]
    ELSE IF /\ ~VerdictOf(context.tree[node], context.pass).unionSubquery
            /\ ~RestrictionEquivalenceForPartitionKeys(context, node)
    THEN LET step == ReplaceNonColocatedJoin(context, node)
         IN  [context |-> step.context,
              continue |-> step.replaced /\ Running(step.context)]
    ELSE [context |-> context, continue |-> FALSE]

\* the while loop of PlanPullPushSubqueries
RECURSIVE ReplaceNonColocatedJoins(_, _)
ReplaceNonColocatedJoins(context, node) ==
    LET iteration == NonColocatedJoinIteration(context, node)
    IN  IF iteration.continue
        THEN ReplaceNonColocatedJoins(iteration.context, node)
        ELSE iteration.context

\* mutant: the set-operation step fires for the set operations of nested
\* queries, not for those of the query the pass was started on
PlanSetOperationsOrJoinsNestedLevel(context, node) ==
    LET query == context.tree[node]
        verdict == VerdictOf(query, context.pass)
    IN  IF ~Running(context) THEN context
        ELSE IF query.setOperations # NoNode
        THEN IF \/ query.setOperations.op # "SETOP_UNION"
                \/ context.level > 0
                \/ verdict.unsupportedUnion
                \/ ~verdict.safeUnion
             THEN RecursivelyPlanSetOperations(context, node, query.setOperations)
             ELSE context
        ELSE IF verdict.unionSubquery /\ ~verdict.safeUnion
        THEN context
        ELSE ReplaceNonColocatedJoins(context, node)

\* the set-operation / non-colocated-join block of PlanPullPushSubqueries
PlanSetOperationsOrJoins(context, node) ==
    LET query == context.tree[node]
        verdict == VerdictOf(query, context.pass)
    IN  IF ~Running(context) THEN context
        ELSE IF query.setOperations # NoNode
        THEN IF \/ query.setOperations.op # "SETOP_UNION"
                \/ context.level = 0
                \/ verdict.unsupportedUnion
                \/ ~verdict.safeUnion
             THEN RecursivelyPlanSetOperations(context, node, query.setOperations)
             ELSE context
        ELSE IF verdict.unionSubquery /\ ~verdict.safeUnion
        THEN context
        ELSE ReplaceNonColocatedJoins(context, node)

RECURSIVE PlanPullPushSubqueries(_, _)
RECURSIVE PlanPullPushSubqueriesUpTo(_, _, _)
RECURSIVE PlanPullPushSubqueriesWalker(_, _)
RECURSIVE WalkSubqueries(_, _)
\* the else branch of PlanPullPushSubqueriesWalker
PlanNonColocatedSubquery(context, node) ==
    IF /\ ~VerdictOf(context.tree[node], context.pass).unionSubquery
       /\ ~RestrictionEquivalenceForPartitionKeys(context, node)
       /\ FindRTEIdentityWithLeastColocatedJoins(context, node)
              \in QueryRteIdentities(context.tree, node)
    THEN RecursivelyPlanQuery(context, node, "non_colocated_subquery", NoNode)
    ELSE context

\* the Query case of PlanPullPushSubqueriesWalker; what the nested
\* PlanPullPushSubqueries returns is not looked at
PlanPullPushSubqueriesWalker(context, node) ==
    IF ~Running(context) THEN context
    ELSE LET nested == PlanPullPushSubqueries(
                           [context EXCEPT !.level = @ + 1], node).context
             back == [nested EXCEPT !.level = @ - 1]
             should == ShouldRecursivelyPlanSubquery(back, node)
         IN  IF ~Running(back) THEN back
             ELSE CASE should = "error" -> Raise(back, MixError)
                    [] should = "true" ->
                         RecursivelyPlanQuery(back, node, "subquery", NoNode)
                    [] OTHER -> PlanNonColocatedSubquery(back, node)

\* mutant: the nested queries are walked last to first
WalkSubqueriesLastFirst(context, nodes) ==
    IF nodes = <<>> THEN context
    ELSE WalkSubqueries(PlanPullPushSubqueriesWalker(context, nodes[Len(nodes)]),
                        SubSeq(nodes, 1, Len(nodes) - 1))

\* query_tree_walker(query, PlanPullPushSubqueriesWalker, context, 0)
WalkSubqueries(context, nodes) ==
    IF nodes = <<>> THEN context
    ELSE WalkSubqueries(PlanPullPushSubqueriesWalker(context, Head(nodes)),
                        Tail(nodes))

\* mutant: recursive planning is done whatever the flag says
SkipsRecursivePlanningNever(context) == FALSE

\* if (SubqueryPushdown) return false: recursive planning is skipped
\* altogether
SkipsRecursivePlanning(context) == context.config.SubqueryPushdown

\* PlanPullPushSubqueries up to the set-operation / non-colocated-join
\* block (wholeCall FALSE) or to its end (wholeCall TRUE): the context
\* afterwards and the deferred error returned ("" for NULL)
PlanPullPushSubqueriesUpTo(context, node, wholeCall) ==
    IF ~Running(context) \/ SkipsRecursivePlanning(context)
    THEN [context |-> context, error |-> ""]
    ELSE LET ctes == PlanPullPushCTEs(context, node)
             walked == WalkSubqueries(ctes.context,
                                      QueryTreeChildren(ctes.context.tree[node]))
             replaced == PlanSetOperationsOrJoins(walked, node)
             joined == PlanRecurringOuterJoinsOfFromList(
                           replaced, node, replaced.tree[node].fromlist)
         IN  IF ctes.error # "" THEN ctes
             ELSE IF ~wholeCall THEN [context |-> walked, error |-> ""]
             ELSE [context |-> joined, error |-> ""]

PlanPullPushSubqueries(context, node) ==
    PlanPullPushSubqueriesUpTo(context, node, TRUE)

(***************************************************************************)
(* SpecClassify: NeedsDistributedPlanning applied to a statement.          *)
(* The statements: a top-level query (node 1) with up to MaxRels base      *)
(* relations, optionally a FROM subquery (node 2, itself optionally with a *)
(* FROM subquery, node 4) and a sublink (node 3).                          *)
(***************************************************************************)
RelAtoms == {"dist_a", "ref_r", "local_l", "view_v"}

ChildRTables ==
    {<<"dist_a">>, <<"local_l">>, <<"ref_r">>, <<"view_v">>,
     <<"dist_a", "local_l">>, <<"local_l", "dist_a">>}

GrandChildRTables == {<<"dist_a">>, <<"local_l">>}

NoChild == <<"none">>

\* a range-table entry of the families: a catalog relation or a VALUES list
AtomRTE(atom) ==
    IF atom = "values" THEN RTE("RTE_VALUES", "", 0) ELSE RelationRTE(atom)

RelRTEs(atoms) == [i \in 1..Len(atoms) |-> AtomRTE(atoms[i])]

EmptyQuery == Query("CMD_SELECT", <<>>, <<>>)

\* the arena of a statement: the top-level query (node 1) with the entries
\* `before`, a FROM subquery (node 2) and the entries `after`; node 2 with
\* its own FROM subquery (node 4); a sublink of the top level (node 3)
NestedTree(cmd, before, sub, after, link, grand) ==
    LET subRTE == IF sub = NoChild THEN <<>> ELSE <<SubqueryRTE(2)>>
        grandRTE == IF grand = NoChild THEN <<>> ELSE <<SubqueryRTE(4)>>
        root == [Query(cmd, RelRTEs(before) \o subRTE \o RelRTEs(after),
                       IF link = NoChild THEN <<>> ELSE <<3>>)
                 EXCEPT !.resultRelation =
                     IF cmd = "CMD_INSERT" /\ before # <<>> THEN 1 ELSE 0]
        n2 == IF sub = NoChild THEN EmptyQuery
              ELSE Query("CMD_SELECT", RelRTEs(sub) \o grandRTE, <<>>)
        n3 == IF link = NoChild THEN EmptyQuery
              ELSE Query("CMD_SELECT", RelRTEs(link), <<>>)
        n4 == IF grand = NoChild THEN EmptyQuery
              ELSE Query("CMD_SELECT", RelRTEs(grand), <<>>)
    IN  <<root, n2, n3, n4>>

StatementTree(cmd, rootRels, sub, link, grand) ==
    NestedTree(cmd, rootRels, sub, <<>>, link, grand)

ClassifyInputs ==
    {[tree |-> StatementTree(cmd, rootRels, sub, link, grand),
      citusLoaded |-> loaded] :
        cmd \in {"CMD_SELECT", "CMD_INSERT", "CMD_UPDATE", "CMD_UTILITY"},
        rootRels \in SeqsUpTo(RelAtoms, MaxRels),
        sub \in ChildRTables \cup {NoChild},
        link \in ChildRTables \cup {NoChild},
        grand \in GrandChildRTables \cup {NoChild},
        loaded \in BOOLEAN}

\* the join of an append-distributed table with a reference table, alone
\* or with a FROM subquery
AppendJoinInputs ==
    {[tree |-> StatementTree("CMD_SELECT", rootRels, sub, NoChild, NoChild),
      citusLoaded |-> TRUE] :
        rootRels \in {<<"append_c", "ref_r">>, <<"ref_r", "append_c">>},
        sub \in ChildRTables \cup {NoChild}}

IdleClassify == cInput = "idle" /\ cResult = "idle"

IdleResult == rSubquery = "idle" /\ rResult = <<>>

IdleIdent == iParse = "idle" /\ iOriginal = <<>> /\ iNew = <<>> /\ iSubPlans = 0

IdleJoin == jQuery = "idle" /\ jContext = <<>>

IdlePass ==
    oQuery = "idle" /\ oConfig = "idle" /\ oStep = "idle" /\ oResult = <<>>

IdleFinalize ==
    /\ fLocalPlan = "idle"
    /\ fDistributedPlan = "idle"
    /\ fLogLevel = "idle"
    /\ fResult = <<>>

IdlePlan ==
    /\ plannerRestrictionContextList = <<>>
    /\ NextPlanId = 1
    /\ frames = <<>>
    /\ pConfig = DefaultConfig
    /\ pInput = <<>>
    /\ subPlanLog = <<>>
    /\ lastExit = <<>>

InitClassify ==
    /\ IdleResult
    /\ IdleIdent
    /\ IdleJoin
    /\ IdlePass
    /\ IdleFinalize
    /\ IdlePlan
    /\ cInput \in {in \in ClassifyInputs :
                      \* a grandchild hangs off a FROM subquery
                      in.tree[4] = EmptyQuery \/ in.tree[2] # EmptyQuery}
                  \cup AppendJoinInputs
    /\ cResult = "none"

\* the call NeedsDistributedPlanning(parse)
ClassifyStatement ==
    /\ cResult = "none"
    /\ cResult' = NeedsDistributedPlanning(cInput.tree, 1, cInput.citusLoaded)
    /\ UNCHANGED <<cInput, notClassify>>

NextClassify == ClassifyStatement

SpecClassify == InitClassify /\ [][NextClassify]_vars

\* the Query nodes of a statement in the order of a full pre-order walk
RECURSIVE PreOrder(_, _)
RECURSIVE PreOrderAll(_, _)
PreOrderAll(tree, nodes) ==
    IF nodes = <<>> THEN <<>>
    ELSE PreOrder(tree, Head(nodes)) \o PreOrderAll(tree, Tail(nodes))

PreOrder(tree, node) == <<node>> \o PreOrderAll(tree, QueryTreeChildren(tree[node]))

IsDmlStatement(query) ==
    query.commandType \in {"CMD_SELECT", "CMD_INSERT", "CMD_UPDATE", "CMD_DELETE"}

\* the statements claim C2 speaks of, once classified
C2_Case ==
    /\ cResult \notin {"none", "idle"}
    /\ cInput.citusLoaded
    /\ IsDmlStatement(cInput.tree[1])
    /\ ~InsertSelectIntoDistributedTable(cInput.tree[1])

C2_DistributedAnywhere ==
    \E n \in Range(PreOrder(cInput.tree, 1)) : HasDistributedRelation(cInput.tree[n])

C2_LocalAnywhere ==
    \E n \in Range(PreOrder(cInput.tree, 1)) : HasLocalRelation(cInput.tree[n])

\* the first query level, in walk order, with a distributed base relation
C2_FirstDistributedLevel ==
    LET order == PreOrder(cInput.tree, 1)
        first == CHOOSE i \in 1..Len(order) :
                    /\ HasDistributedRelation(cInput.tree[order[i]])
                    /\ \A j \in 1..(i - 1) : ~HasDistributedRelation(cInput.tree[order[j]])
    IN  order[first]

\* C2 (as stated): a distributed and a local base relation anywhere in the
\* statement, at the same or at different query levels, make
\* NeedsDistributedPlanning raise the local/distributed mixing error.
C2_MixAnywhereRaises ==
    (C2_Case /\ C2_DistributedAnywhere /\ C2_LocalAnywhere)
        => cResult = "error_mix_local_distributed"

\* C2 (amended): the mixing error is raised exactly when the first query
\* level the walker finds with a distributed base relation also holds a
\* local base relation in its own range table.
C2_MixSameLevelRaises ==
    C2_Case =>
        (cResult = "error_mix_local_distributed"
            <=> (/\ C2_DistributedAnywhere
                 /\ HasLocalRelation(cInput.tree[C2_FirstDistributedLevel])))

\* C2 witness: a mix inside a FROM subquery, below a top level without any
\* distributed relation, has raised the error
C2_Witness ==
    /\ C2_Case
    /\ cResult = "error_mix_local_distributed"
    /\ ~HasDistributedRelation(cInput.tree[1])
    /\ C2_FirstDistributedLevel = 2

\* the decision as stated, without (mixCheck = FALSE) or with the mixing
\* error of the first query level, in walk order, that holds a distributed
\* base relation
ReferenceDecision(mixCheck) ==
    LET queryTree == cInput.tree[1]
    IN  IF queryTree.commandType \notin
               {"CMD_SELECT", "CMD_INSERT", "CMD_UPDATE", "CMD_DELETE"}
        THEN "false"
        ELSE IF ~cInput.citusLoaded THEN "false"
        ELSE IF InsertSelectIntoDistributedTable(queryTree) THEN "true"
        ELSE IF ~C2_DistributedAnywhere THEN "false"
        ELSE IF mixCheck /\ HasLocalRelation(cInput.tree[C2_FirstDistributedLevel])
        THEN "error_mix_local_distributed"
        ELSE IF InsertSelectIntoLocalTable(queryTree) THEN "error_insert_into_local"
        ELSE "true"

\* C17 as stated: NeedsDistributedPlanning is false for a statement that is
\* not SELECT/INSERT/UPDATE/DELETE, else false when the distribution layer is
\* not loaded, else true for an INSERT ... SELECT into a distributed table,
\* else false when no distributed base relation occurs anywhere, else the
\* INSERT-into-local error for an INSERT ... SELECT into a local table, else
\* true
C17_ReferenceDecision ==
    cResult \notin {"none", "idle"} => cResult = ReferenceDecision(FALSE)

\* C17: the same decision, with the local/distributed mixing error raised,
\* before the INSERT-into-local error, when the first query level that holds
\* a distributed base relation also holds a local one
C17_ReferenceDecisionWithMixCheck ==
    cResult \notin {"none", "idle"} => cResult = ReferenceDecision(TRUE)

\* an INSERT ... SELECT into a distributed table whose top level also holds
\* a local table is classified true without the mixing check
C17_Witness ==
    /\ cResult = "true"
    /\ cInput.citusLoaded
    /\ InsertSelectIntoDistributedTable(cInput.tree[1])
    /\ HasLocalRelation(cInput.tree[1])

\* C17: an INSERT ... SELECT into a local table from a distributed one
C17_WitnessInsertIntoLocal ==
    /\ cResult = "error_insert_into_local"
    /\ ~HasDistributedRelation(cInput.tree[1])

\* a classified SELECT whose top level joins the append-distributed table
\* with the reference table
C18_Case ==
    /\ cResult \notin {"none", "idle"}
    /\ cInput.citusLoaded
    /\ cInput.tree[1].commandType = "CMD_SELECT"
    /\ Len(cInput.tree[1].rtable) >= 2
    /\ {cInput.tree[1].rtable[i].relid : i \in 1..2} = {"append_c", "ref_r"}
    /\ \A i \in 1..2 : cInput.tree[1].rtable[i].rtekind = "RTE_RELATION"

\* C18: the join of an append-distributed table with a reference table is
\* classified as needing distributed planning, without the mixing error:
\* the classifier takes the reference table for a distributed relation and
\* not for a local one, while for the orchestrator (IsDistributedTableRTE)
\* the reference table is no distributed table and the side of a join that
\* holds nothing else is recurring
C18_ReferenceTableInJoin ==
    C18_Case =>
        /\ cResult = "true"
        /\ HasDistributedRelation(cInput.tree[1])
        /\ ~HasLocalRelation(cInput.tree[1])
        /\ \A i \in 1..2 :
              LET rangeTableEntry == cInput.tree[1].rtable[i]
                  reference == PartitionMethod(rangeTableEntry.relid)
                                   = "DISTRIBUTE_BY_NONE"
              IN  /\ IsDistributedTable(rangeTableEntry.relid)
                  /\ IsDistributedTableRTE(rangeTableEntry) <=> ~reference
                  /\ JoinTreeContainsDistributedTableRTE(cInput.tree, 1,
                                                         RangeTblRef(i))
                        <=> ~reference

C18_Witness ==
    /\ C18_Case
    /\ cResult = "true"
    /\ cInput.tree[1].rtable[2].relid = "ref_r"
    /\ ~IsDistributedTableRTE(cInput.tree[1].rtable[2])

(***************************************************************************)
(* SpecResult: BuildSubPlanResultQuery applied to a subquery, known here   *)
(* by its target list.                                                     *)
(***************************************************************************)
\* int4, text with the default collation, varchar(16) and a type oid above
\* 2^31 (a late user-defined type), a numeric with a type modifier
ColumnExprs ==
    {TargetExpr(23, -1, 0), TargetExpr(25, -1, 100),
     TargetExpr(1043, 20, 100), TargetExpr(OidModulus - 7, -1, 0)}

ColumnNames == {"user_id", "value_1"}

TargetEntries ==
    {TargetEntry(e, n, j) : e \in ColumnExprs, n \in ColumnNames, j \in BOOLEAN}

InitResult ==
    /\ IdleClassify
    /\ IdleIdent
    /\ IdleJoin
    /\ IdlePass
    /\ IdleFinalize
    /\ IdlePlan
    /\ rSubquery \in
          {[Query("CMD_SELECT", <<RelationRTE("dist_a")>>, <<>>)
               EXCEPT !.targetList = tl] : tl \in SeqsUpTo(TargetEntries, MaxColumns)}
    /\ rResult = <<>>

\* the call BuildSubPlanResultQuery(subquery, planId, subPlanId)
BuildResultQuery ==
    /\ rResult = <<>>
    /\ \E subPlanId \in 0..1 :
          rResult' = <<BuildSubPlanResultQuery(rSubquery, 1, subPlanId)>>
    /\ UNCHANGED <<rSubquery, notResult>>

NextResult == BuildResultQuery

SpecResult == InitResult /\ [][NextResult]_vars

\* the visible (non-junk) target entries of a query, in order
VisibleColumns(query) == SelectSeq(query.targetList, LAMBDA te : ~te.resjunk)

\* C5: the result reader built for a subquery has exactly one output column
\* per non-junk target entry of the subquery, in the same order, with the
\* same name, type, type modifier and collation, numbered 1..k without gaps.
C5_ColumnsRoundTrip ==
    (rResult # <<>>) =>
        LET visible == VisibleColumns(rSubquery)
            resultQuery == rResult[1]
            fn == resultQuery.rtable[1].functions[1]
        IN  /\ Len(resultQuery.targetList) = Len(visible)
            /\ fn.funccolcount = Len(visible)
            /\ Len(fn.funccolnames) = Len(visible)
            /\ \A k \in 1..Len(visible) :
                  /\ resultQuery.targetList[k].resno = k
                  /\ ~resultQuery.targetList[k].resjunk
                  /\ resultQuery.targetList[k].resname = visible[k].resname
                  /\ resultQuery.targetList[k].expr.varattno = k
                  /\ resultQuery.targetList[k].expr.vartype = visible[k].expr.type
                  /\ resultQuery.targetList[k].expr.vartypmod = visible[k].expr.typmod
                  /\ resultQuery.targetList[k].expr.varcollid = visible[k].expr.collation
                  /\ fn.funccolnames[k] = visible[k].resname
                  /\ OidOfInt32(fn.funccoltypes[k]) = visible[k].expr.type
                  /\ fn.funccoltypmods[k] = visible[k].expr.typmod
                  /\ OidOfInt32(fn.funccolcollations[k]) = visible[k].expr.collation

\* C5 witness: a result reader built for a subquery with a junk column
\* between two visible ones, one of them with typmod -1 and a type oid
\* above 2^31
C5_Witness ==
    /\ rResult # <<>>
    /\ Len(rSubquery.targetList) = 3
    /\ ~rSubquery.targetList[1].resjunk
    /\ rSubquery.targetList[2].resjunk
    /\ ~rSubquery.targetList[3].resjunk
    /\ rSubquery.targetList[3].expr.type = OidModulus - 7
    /\ Len(rResult[1].targetList) = 2

(***************************************************************************)
(* SpecIdent: the identities of a tree through one planning attempt:       *)
(* distributed_planner assigns them on parse and copies parse to           *)
(* originalQuery; the orchestrator overwrites subqueries of originalQuery  *)
(* by result readers; CreateDistributedSelectPlan copies the rewritten     *)
(* originalQuery to newQuery and assigns identities on the copy.           *)
(***************************************************************************)
IdentAtoms == {"dist_a", "ref_r", "values"}

IdentTrees ==
    {NestedTree("CMD_SELECT", before, sub, after, link, grand) :
        before \in SeqsUpTo(IdentAtoms, MaxRels),
        sub \in {NoChild, <<"dist_b">>, <<"local_l">>, <<"values", "values">>,
                 <<"dist_a", "dist_b">>},
        after \in {<<>>, <<"dist_b">>},
        link \in {NoChild, <<"dist_b">>},
        grand \in {NoChild, <<"dist_a">>}}

InitIdent ==
    /\ IdleClassify
    /\ IdleResult
    /\ IdleJoin
    /\ IdlePass
    /\ IdleFinalize
    /\ IdlePlan
    /\ iParse \in {t \in IdentTrees : t[4] = EmptyQuery \/ t[2] # EmptyQuery}
    /\ iOriginal = <<>>
    /\ iNew = <<>>
    /\ iSubPlans = 0

\* distributed_planner: AssignRTEIdentities(parse); originalQuery = copyObject(parse)
AssignOnParse ==
    /\ iOriginal = <<>>
    /\ iParse' = AssignRTEIdentities(iParse, 1)
    /\ iOriginal' = <<iParse'>>
    /\ UNCHANGED <<iNew, iSubPlans, notIdent>>

IsResultReader(query) ==
    /\ Len(query.rtable) = 1
    /\ query.rtable[1].rtekind = "RTE_FUNCTION"
    /\ query.rtable[1].functions # <<>>

\* RecursivelyPlanQuery: memcpy(query, resultQuery) on a sub-select of
\* originalQuery
ReplaceSubquery(node) ==
    /\ iOriginal # <<>>
    /\ iNew = <<>>
    /\ node # 1
    /\ node \in Range(PreOrder(iOriginal[1], 1))
    /\ ~IsResultReader(iOriginal[1][node])
    /\ iOriginal' = <<[iOriginal[1] EXCEPT ![node] =
                         BuildSubPlanResultQuery(iOriginal[1][node], 1, iSubPlans)]>>
    /\ iSubPlans' = iSubPlans + 1
    /\ UNCHANGED <<iParse, iNew, notIdent>>

\* CreateDistributedSelectPlan, list_length(subPlanList) > 0:
\* newQuery = copyObject(originalQuery); AssignRTEIdentities(newQuery)
CopyAndReassign ==
    /\ iOriginal # <<>>
    /\ iNew = <<>>
    /\ iSubPlans > 0
    /\ iNew' = <<AssignRTEIdentities(iOriginal[1], 1)>>
    /\ UNCHANGED <<iParse, iOriginal, iSubPlans, notIdent>>

NextIdent ==
    \/ AssignOnParse
    \/ \E node \in 2..4 : ReplaceSubquery(node)
    \/ CopyAndReassign

SpecIdent == InitIdent /\ [][NextIdent]_vars

\* the range-table entries of a tree, found query by query
ReachablePlaces(tree) ==
    {<<n, i>> : n \in Range(PreOrder(tree, 1)), i \in 1..MaxRels + 2}
        \cap {<<n, i>> : n \in DOMAIN tree, i \in 1..MaxRels + 2}

PlacesOf(tree) ==
    {p \in ReachablePlaces(tree) : p[2] <= Len(tree[p[1]].rtable)}

BaseRelationPlaces(tree) ==
    {p \in PlacesOf(tree) : EntryAt(tree, p).rtekind = "RTE_RELATION"}

\* the base relations of a tree: where they stand and what they name
BaseRelationSet(tree) ==
    {<<p, EntryAt(tree, p).relid>> : p \in BaseRelationPlaces(tree)}

IdentitySet(tree) ==
    {GetRTEIdentity(EntryAt(tree, p)) : p \in BaseRelationPlaces(tree)}

\* the identities of a tree are 1..N, in extraction order, one per base
\* relation entry, and no other entry carries one
IdentitiesWellAssigned(tree) ==
    LET extracted == ExtractRangeTableEntryWalker(tree, 1)
        relations == SelectSeq(extracted,
                        LAMBDA p : EntryAt(tree, p).rtekind = "RTE_RELATION")
        N == Cardinality(BaseRelationPlaces(tree))
    IN  /\ Len(relations) = N
        /\ \A k \in 1..N : GetRTEIdentity(EntryAt(tree, relations[k])) = k
        /\ IdentitySet(tree) = 1..N
        /\ \A p, q \in BaseRelationPlaces(tree) :
              p # q => GetRTEIdentity(EntryAt(tree, p)) # GetRTEIdentity(EntryAt(tree, q))
        /\ \A p \in PlacesOf(tree) \ BaseRelationPlaces(tree) :
              EntryAt(tree, p).values_lists = <<>>

\* C6: after AssignRTEIdentities on a tree with N base-relation entries at
\* any nesting depth, the entries carry exactly the identities 1..N, each on
\* one entry, in extraction order, GetRTEIdentity returns the assigned value
\* and entries of other kinds carry no identity.
C6_IdentitiesOneToN ==
    /\ (iOriginal # <<>>) => IdentitiesWellAssigned(iParse)
    /\ (iNew # <<>>) => IdentitiesWellAssigned(iNew[1])

\* C6 witness: identities assigned on a tree with base relations at three
\* query levels and an entry of another kind before one of them
C6_Witness ==
    /\ iOriginal # <<>>
    /\ iNew = <<>>
    /\ Cardinality(BaseRelationPlaces(iParse)) >= 4
    /\ \E p \in BaseRelationPlaces(iParse) : p[1] = 4
    /\ \E p \in BaseRelationPlaces(iParse) : p[1] = 3
    /\ iParse[1].rtable[1].rtekind = "RTE_VALUES"

\* C7: assigning identities on the copy of a tree yields the same set of
\* identities as on the source exactly when the base-relation set of the
\* copy is that of the source.
C7_StableUnderCopy ==
    (iNew # <<>>) =>
        (IdentitySet(iNew[1]) = IdentitySet(iParse)
            <=> BaseRelationSet(iNew[1]) = BaseRelationSet(iParse))

\* C7 witness: a copy taken after a subquery with a base relation was
\* replaced, with fewer identities than the source
C7_Witness ==
    /\ iNew # <<>>
    /\ BaseRelationSet(iNew[1]) # BaseRelationSet(iParse)
    /\ IdentitySet(iNew[1]) # IdentitySet(iParse)
    /\ IdentitySet(iNew[1]) # {}

\* a copy taken after only a subquery without base relations was replaced
C7_UnchangedCase ==
    /\ iNew # <<>>
    /\ BaseRelationSet(iNew[1]) = BaseRelationSet(iParse)
    /\ IdentitySet(iNew[1]) # {}

(***************************************************************************)
(* SpecJoin: the outer-join step of PlanPullPushSubqueries applied to a    *)
(* query (node 1) whose FROM clause joins up to MaxLeaves leaves: base     *)
(* relations and subqueries (node 1 + i for leaf i, its own FROM subquery  *)
(* in node 1 + MaxLeaves + i).                                             *)
(***************************************************************************)
MaxLeaves == 3

JoinTypes == {"JOIN_INNER", "JOIN_LEFT", "JOIN_RIGHT", "JOIN_FULL"}

LeafKinds == {"dist_a", "ref_r", "sub_dist", "sub_ref", "sub_deep"}

\* the join trees over the leaves lo..hi, in range-table order
RECURSIVE JoinTrees(_, _)
JoinTrees(lo, hi) ==
    IF lo = hi THEN {RangeTblRef(lo)}
    ELSE UNION {{JoinExpr(joinType, larg, rarg) :
                    joinType \in JoinTypes,
                    larg \in JoinTrees(lo, k),
                    rarg \in JoinTrees(k + 1, hi)} : k \in lo..hi - 1}

\* FROM lists: one join tree, or a plain leaf followed by a join tree
JoinFromLists(n) ==
    {<<joinTree>> : joinTree \in JoinTrees(1, n)}
        \cup (IF n > 2 THEN {<<RangeTblRef(1), joinTree>> : joinTree \in JoinTrees(2, n)}
              ELSE {})

LeafRTE(kind, i) ==
    IF kind \in {"dist_a", "ref_r"} THEN RelationRTE(kind) ELSE SubqueryRTE(1 + i)

LeafQuery(kind, i) ==
    CASE kind = "sub_dist" -> Query("CMD_SELECT", <<RelationRTE("dist_b")>>, <<>>)
      [] kind = "sub_ref" -> Query("CMD_SELECT", <<RelationRTE("ref_r")>>, <<>>)
      [] kind = "sub_deep" ->
            Query("CMD_SELECT",
                  <<RelationRTE("ref_r"), SubqueryRTE(1 + MaxLeaves + i)>>, <<>>)
      [] OTHER -> EmptyQuery

LeafSubquery(kind) ==
    IF kind = "sub_deep" THEN Query("CMD_SELECT", <<RelationRTE("dist_a")>>, <<>>)
    ELSE EmptyQuery

JoinQueryTree(kinds, fromlist) ==
    LET n == Len(kinds)
        root == [Query("CMD_SELECT", [i \in 1..n |-> LeafRTE(kinds[i], i)], <<>>)
                    EXCEPT !.fromlist = fromlist]
    IN  <<root>>
            \o [i \in 1..MaxLeaves |->
                    IF i <= n THEN LeafQuery(kinds[i], i) ELSE EmptyQuery]
            \o [i \in 1..MaxLeaves |->
                    IF i <= n THEN LeafSubquery(kinds[i]) ELSE EmptyQuery]

InitJoin ==
    /\ IdleClassify
    /\ IdleResult
    /\ IdleIdent
    /\ IdlePass
    /\ IdleFinalize
    /\ IdlePlan
    /\ \E n \in 2..MaxLeaves :
          \E kinds \in [1..n -> LeafKinds], fromlist \in JoinFromLists(n) :
              jQuery = JoinQueryTree(kinds, fromlist)
    /\ jContext = <<>>

\* the last block of PlanPullPushSubqueries
PlanRecurringOuterJoins ==
    /\ jContext = <<>>
    /\ jContext' = <<PlanRecurringOuterJoinsOfFromList(
                         PlanPullPushContext(1, jQuery, 1, DefaultConfig, 0),
                         1, jQuery[1].fromlist)>>
    /\ UNCHANGED <<jQuery, notJoin>>

NextJoin == PlanRecurringOuterJoins

SpecJoin == InitJoin /\ [][NextJoin]_vars

RECURSIVE JoinLeaves(_)
JoinLeaves(joinTreeNode) ==
    IF joinTreeNode.tag = "JoinExpr"
    THEN JoinLeaves(joinTreeNode.larg) \cup JoinLeaves(joinTreeNode.rarg)
    ELSE {joinTreeNode.rtindex}

RECURSIVE JoinExprsOf(_)
JoinExprsOf(joinTreeNode) ==
    IF joinTreeNode.tag = "JoinExpr"
    THEN {joinTreeNode} \cup JoinExprsOf(joinTreeNode.larg)
                       \cup JoinExprsOf(joinTreeNode.rarg)
    ELSE {}

\* the subquery nodes of the leaves under a join-tree node
LeafSubqueries(tree, joinTreeNode) ==
    {tree[1].rtable[i].subquery :
        i \in {j \in JoinLeaves(joinTreeNode) : tree[1].rtable[j].rtekind = "RTE_SUBQUERY"}}

\* those that contain a distributed relation
DistributedLeafSubqueries(tree, joinTreeNode) ==
    {node \in LeafSubqueries(tree, joinTreeNode) :
        QueryContainsDistributedTableRTE(tree, node)}

\* the nodes materialized on account of a join node
PlannedOnAccountOf(context, joinExpr) ==
    {context.subPlanList[i].node :
        i \in {j \in 1..Len(context.subPlanList) :
                  context.subPlanList[j].cause = joinExpr}}

PlannedNodes(context) ==
    {context.subPlanList[i].node : i \in 1..Len(context.subPlanList)}

\* C8: the outer-join step hands no side of an INNER join to
\* RecursivelyPlanJoinTree and materializes no subquery on account of an
\* INNER join, also when one side is recurring and the other is not.
C8_InnerJoinPlansNothing ==
    (jContext # <<>>) =>
        /\ \A i \in 1..Len(jContext[1].joinLog) :
              jContext[1].joinLog[i].joinExpr.jointype = "JOIN_INNER"
                  => jContext[1].joinLog[i].planned = <<>>
        /\ \A item \in Range(jQuery[1].fromlist) :
              \A joinExpr \in JoinExprsOf(item) :
                  joinExpr.jointype = "JOIN_INNER"
                      => PlannedOnAccountOf(jContext[1], joinExpr) = {}

\* C8 witness: an INNER join with exactly one recurring side was visited and
\* a subquery below it was materialized, on account of an outer join
C8_Witness ==
    /\ jContext # <<>>
    /\ \E i \in 1..Len(jContext[1].joinLog) :
          LET seen == jContext[1].joinLog[i]
          IN  /\ seen.joinExpr.jointype = "JOIN_INNER"
              /\ seen.leftRecurs # seen.rightRecurs
              /\ LeafSubqueries(jQuery, seen.joinExpr) \cap PlannedNodes(jContext[1]) # {}

OneSideRecurring(joinTypes) ==
    {i \in 1..Len(jContext[1].joinLog) :
        /\ jContext[1].joinLog[i].joinExpr.jointype \in joinTypes
        /\ jContext[1].joinLog[i].leftRecurs # jContext[1].joinLog[i].rightRecurs}

\* C24 (as stated): at a LEFT or RIGHT join with exactly one recurring side
\* the step materializes every leaf subquery of the other side that
\* contains a distributed relation, whichever side that is.
C24_NonRecurringSidePlanned ==
    (jContext # <<>>) =>
        \A i \in OneSideRecurring({"JOIN_LEFT", "JOIN_RIGHT"}) :
            LET seen == jContext[1].joinLog[i]
                side == IF seen.leftRecurs THEN seen.joinExpr.rarg
                        ELSE seen.joinExpr.larg
            IN  PlannedOnAccountOf(jContext[1], seen.joinExpr)
                    = DistributedLeafSubqueries(seen.treeSeen, side)

\* C24 (amended): at a LEFT join with a recurring left side, and at a RIGHT
\* join with a recurring right side, the other side not being recurring,
\* the step materializes every leaf subquery of that other side that
\* contains a distributed relation, and these only; when it is the left
\* side of a LEFT join or the right side of a RIGHT join that is not
\* recurring, it materializes nothing on account of the join.
C24_InnerSidePlanned ==
    (jContext # <<>>) =>
        \A i \in OneSideRecurring({"JOIN_LEFT", "JOIN_RIGHT"}) :
            LET seen == jContext[1].joinLog[i]
                outerRecurs == IF seen.joinExpr.jointype = "JOIN_LEFT"
                               THEN seen.leftRecurs ELSE seen.rightRecurs
                inner == IF seen.joinExpr.jointype = "JOIN_LEFT"
                         THEN seen.joinExpr.rarg ELSE seen.joinExpr.larg
                planned == PlannedOnAccountOf(jContext[1], seen.joinExpr)
            IN  IF outerRecurs
                THEN /\ planned = DistributedLeafSubqueries(seen.treeSeen, inner)
                     /\ \A node \in planned : IsResultReader(jContext[1].tree[node])
                ELSE planned = {}

\* a RIGHT join with a recurring right side whose left side has two leaf
\* subqueries with a distributed relation, both materialized
C24_Witness ==
    /\ jContext # <<>>
    /\ \E i \in OneSideRecurring({"JOIN_RIGHT"}) :
          LET seen == jContext[1].joinLog[i]
          IN  /\ seen.rightRecurs
              /\ Cardinality(PlannedOnAccountOf(jContext[1], seen.joinExpr)) = 2

\* C24: a LEFT join with a left side that is not recurring and has a leaf
\* subquery with a distributed relation, and a recurring right side
C24_WitnessOuterSide ==
    /\ jContext # <<>>
    /\ \E i \in OneSideRecurring({"JOIN_LEFT"}) :
          LET seen == jContext[1].joinLog[i]
          IN  /\ seen.rightRecurs
              /\ DistributedLeafSubqueries(seen.treeSeen, seen.joinExpr.larg) # {}
              /\ PlannedOnAccountOf(jContext[1], seen.joinExpr) = {}

\* C25: at a FULL join the rule is applied to both sides: with a recurring
\* left side and a right side that is not recurring every leaf subquery of
\* the right side that contains a distributed relation is materialized,
\* with a recurring right side and a left side that is not recurring every
\* such leaf subquery of the left side.
C25_FullJoinBothSides ==
    (jContext # <<>>) =>
        \A i \in OneSideRecurring({"JOIN_FULL"}) :
            LET seen == jContext[1].joinLog[i]
                side == IF seen.leftRecurs THEN seen.joinExpr.rarg
                        ELSE seen.joinExpr.larg
            IN  PlannedOnAccountOf(jContext[1], seen.joinExpr)
                    = DistributedLeafSubqueries(seen.treeSeen, side)

\* the half of C25 the code keeps: a FULL join with a recurring left side
C25_FullJoinRecurringLeft ==
    (jContext # <<>>) =>
        \A i \in OneSideRecurring({"JOIN_FULL"}) :
            LET seen == jContext[1].joinLog[i]
            IN  seen.leftRecurs =>
                    PlannedOnAccountOf(jContext[1], seen.joinExpr)
                        = DistributedLeafSubqueries(seen.treeSeen, seen.joinExpr.rarg)

\* a FULL join with a recurring right side and a leaf subquery with a
\* distributed relation on its left side has been visited
C25_RecurringRightReached ==
    /\ jContext # <<>>
    /\ \E i \in OneSideRecurring({"JOIN_FULL"}) :
          LET seen == jContext[1].joinLog[i]
          IN  /\ seen.rightRecurs
              /\ DistributedLeafSubqueries(seen.treeSeen, seen.joinExpr.larg) # {}

(***************************************************************************)
(* 4.1 Restriction context stack.                                          *)
(***************************************************************************)
\* what CreateAndPushPlannerRestrictionContext allocates
NewPlannerRestrictionContext ==
    [relationRestrictionList |-> <<>>, joinRestrictionList |-> <<>>,
     hasDistributedRelation |-> FALSE, hasLocalRelation |-> FALSE,
     allReferenceTables |-> TRUE]

\* lcons(plannerRestrictionContext, plannerRestrictionContextList)
CreateAndPushPlannerRestrictionContext(contextList) ==
    <<NewPlannerRestrictionContext>> \o contextList

\* mutant: the context stays on the list
PopPlannerRestrictionContextKeepsContext(contextList) == contextList

\* list_delete_first(plannerRestrictionContextList)
PopPlannerRestrictionContext(contextList) == Tail(contextList)

CurrentPlannerRestrictionContext(contextList) == Head(contextList)

\* mutant: the flags are assigned from the relation of the call, not
\* accumulated
RelationRestrictionHookAssignsFlags(restrictionContext, rte) ==
    IF rte.rtekind # "RTE_RELATION" THEN restrictionContext
    ELSE LET distributedTable == IsDistributedTable(rte.relid)
         IN  [restrictionContext EXCEPT
                 !.hasDistributedRelation = distributedTable,
                 !.hasLocalRelation = ~distributedTable,
                 !.allReferenceTables =
                     IF distributedTable
                     THEN PartitionMethod(rte.relid) = "DISTRIBUTE_BY_NONE"
                     ELSE @,
                 !.relationRestrictionList = Append(@,
                     [relationId |-> rte.relid, rte |-> rte,
                      distributedRelation |-> distributedTable])]

\* multi_relation_restriction_hook on the current context
RelationRestrictionHook(restrictionContext, rte) ==
    IF rte.rtekind # "RTE_RELATION" THEN restrictionContext
    ELSE LET distributedTable == IsDistributedTable(rte.relid)
         IN  [restrictionContext EXCEPT
                 !.hasDistributedRelation = @ \/ distributedTable,
                 !.hasLocalRelation = @ \/ ~distributedTable,
                 !.allReferenceTables =
                     IF distributedTable
                     THEN @ /\ PartitionMethod(rte.relid) = "DISTRIBUTE_BY_NONE"
                     ELSE @,
                 !.relationRestrictionList = Append(@,
                     [relationId |-> rte.relid, rte |-> rte,
                      distributedRelation |-> distributedTable])]

\* the calls of the relation hook during one run of standard_planner: one
\* per range-table entry of the planned tree
RECURSIVE RelationRestrictionHooks(_, _, _)
RelationRestrictionHooks(restrictionContext, tree, places) ==
    IF places = <<>> THEN restrictionContext
    ELSE RelationRestrictionHooks(
             RelationRestrictionHook(restrictionContext, EntryAt(tree, Head(places))),
             tree, Tail(places))

\* multi_join_restriction_hook on the current context, called for a join
\* of the query `node`
JoinRestrictionHook(restrictionContext, node, jointype) ==
    [restrictionContext EXCEPT
        !.joinRestrictionList = Append(@, [joinType |-> jointype,
                                           plannerInfo |-> node])]

\* the joins the host planner forms for a query: those of its JoinExprs and
\* the inner joins between the items of its FROM list
RECURSIVE JoinTypesOf(_)
JoinTypesOf(joinTreeNode) ==
    IF joinTreeNode.tag = "JoinExpr"
    THEN JoinTypesOf(joinTreeNode.larg) \o JoinTypesOf(joinTreeNode.rarg)
            \o <<joinTreeNode.jointype>>
    ELSE <<>>

JoinsOfQuery(query) ==
    IF query.setOperations # NoNode THEN <<>>
    ELSE Concat([i \in 1..Len(query.fromlist) |-> JoinTypesOf(query.fromlist[i])])
            \o [i \in 1..(Len(query.fromlist) - 1) |-> "JOIN_INNER"]

\* the calls of the join hook during one run of standard_planner
RECURSIVE JoinRestrictionHooks(_, _, _, _)
JoinRestrictionHooks(restrictionContext, tree, nodes, joins) ==
    IF nodes = <<>> THEN restrictionContext
    ELSE IF joins = <<>>
    THEN IF Len(nodes) = 1 THEN restrictionContext
         ELSE JoinRestrictionHooks(restrictionContext, tree, Tail(nodes),
                                   JoinsOfQuery(tree[nodes[2]]))
    ELSE JoinRestrictionHooks(
             JoinRestrictionHook(restrictionContext, Head(nodes), Head(joins)),
             tree, nodes, Tail(joins))

\* mutant: the hooks fill every context of the list
StandardPlannerHooksFillsAll(contextList, tree, root) ==
    [i \in 1..Len(contextList) |->
        JoinRestrictionHooks(
            RelationRestrictionHooks(contextList[i], tree,
                                     ExtractRangeTableEntryWalker(tree, root)),
            tree, PreOrder(tree, root), JoinsOfQuery(tree[root]))]

\* standard_planner(parse, ...) seen from the stack: the hooks fill the
\* current context (the planned tree and its two walks are bound once, as
\* values)
StandardPlannerHooks(contextList, tree, root) ==
    CHOOSE filled \in
        {<<JoinRestrictionHooks(
               RelationRestrictionHooks(
                   CurrentPlannerRestrictionContext(contextList), planned, places),
               planned, nodes, JoinsOfQuery(planned[root]))>>
             \o Tail(contextList) :
           planned \in {tree},
           places \in {ExtractRangeTableEntryWalker(tree, root)},
           nodes \in {PreOrder(tree, root)}} : TRUE

\* the PG_CATCH block of distributed_planner
\* mutant: the handler re-throws without popping
CatchContextListKeepsContext(contextList) == contextList

CatchContextList(contextList) == PopPlannerRestrictionContext(contextList)

(***************************************************************************)
(* 4.5 The planner entry point, as a machine of nested calls.              *)
(*                                                                         *)
(* frames is the call stack of distributed_planner invocations (the last   *)
(* frame is the running one).  A frame is at one of the positions          *)
(*   standard_planner  about to run the host planner (context pushed)      *)
(*   create_plan       at CreateDistributedPlan                            *)
(*   select_plan       at an entry of CreateDistributedSelectPlan          *)
(*   pass              inside PlanPullPushSubqueries, between two planner  *)
(*                     calls for sub-plans                                 *)
(*   await             inside planner() for a sub-plan                     *)
(*   replan            about to copy and re-plan the rewritten tree        *)
(*   logical_plan      about to build the logical and physical plan        *)
(*   finish_plan       at the tail of CreateDistributedPlan                *)
(*   end_try           after PG_END_TRY                                    *)
(*   catch             in PG_CATCH                                         *)
(* passes holds one entry per entry of CreateDistributedSelectPlan that    *)
(* reached the orchestrator: the tree the pass started from (start), the   *)
(* number of sub-plans it has produced (done) and, once the pass has       *)
(* ended, its pullPushContext.subPlanList.  originalQuery is the tree the  *)
(* last ended pass has left; where a pass stands in between follows from   *)
(* start and done by running it up to its next planner call.  pending is   *)
(* the sub-plan whose planner call is in progress.                         *)
(***************************************************************************)
Top(stack) == stack[Len(stack)]

Below(stack) == SubSeq(stack, 1, Len(stack) - 1)

SetTop(stack, frame) == [stack EXCEPT ![Len(stack)] = frame]

\* HasUnresolvedExternParamsWalker on a whole tree; boundParams holds for
\* each parameter number whether its type is valid once fetched (<<>>: NULL)
HasUnresolvedExternParamsWalker(tree, root, boundParams) ==
    \E node \in Range(PreOrder(tree, root)) :
        \E param \in Range(tree[node].externParams) :
            /\ param.paramkind = "PARAM_EXTERN"
            /\ ~(/\ param.paramid > 0
                 /\ param.paramid <= Len(boundParams)
                 /\ boundParams[param.paramid] = "valid")

IsModifyCommand(query) ==
    query.commandType \in {"CMD_INSERT", "CMD_UPDATE", "CMD_DELETE"}

\* the pass a frame is in, run until it has asked for `calls` sub-plans
RunPass(frame, calls) ==
    PlanPullPushSubqueries(
        PlanPullPushContext(frame.planId, Top(frame.passes).start,
                            Len(frame.passes), frame.config, calls),
        frame.root)

\* distributed_planner up to the push of the restriction context: the frame
\* of the call, or the error NeedsDistributedPlanning raises
EnterPlanner(tree, root, forceDistributed, boundParams, config, depth) ==
    LET classified == NeedsDistributedPlanning(tree, root, TRUE)
        needsDistributedPlanning == classified = "true" \/ forceDistributed
        identified == IF needsDistributedPlanning
                      THEN AssignRTEIdentities(tree, root) ELSE tree
        parse == IF needsDistributedPlanning
                 THEN AdjustPartitioningForDistributedPlanning(identified, root, FALSE)
                 ELSE tree
    IN  [raised |-> classified \notin {"true", "false"},
         error |-> classified,
         frame |-> [pc |-> "standard_planner", input |-> tree, root |-> root,
                    parse |-> parse,
                    originalQuery |-> IF needsDistributedPlanning
                                      THEN <<identified>> ELSE <<>>,
                    needsDistributedPlanning |-> needsDistributedPlanning,
                    boundParams |-> boundParams, config |-> config,
                    planId |-> 0, hasUnresolvedParams |-> FALSE,
                    passes |-> <<>>, pending |-> <<>>, plan |-> <<>>,
                    resultPlan |-> <<>>,
                    error |-> "",
                    entryDepth |-> depth, pushes |-> 1, pops |-> 0]]

\* the distributed plan handed back through the entries of
\* CreateDistributedSelectPlan: every entry that re-planned overwrites
\* subPlanList with its own list, the first entry last
\* (operation is the command of the query; multiTask says whether the
\* worker job of the plan has more than one task)
DistributedPlan(frame, planningError) ==
    [planId |-> frame.planId, planningError |-> planningError,
     operation |-> frame.parse[frame.root].commandType, multiTask |-> FALSE,
     masterQuery |-> <<>>, jobExecutorType |-> "MULTI_EXECUTOR_ROUTER",
     relationIdList |-> <<>>,
     subPlanList |-> IF frame.passes # <<>> /\ frame.passes[1].done > 0
                     THEN frame.passes[1].subPlanList ELSE <<>>]

IsUpdateOrDelete(distributedPlan) ==
    distributedPlan.operation \in {"CMD_UPDATE", "CMD_DELETE"}

IsMultiTaskPlan(distributedPlan) == distributedPlan.multiTask

IsMultiShardModifyPlan(distributedPlan) ==
    IsUpdateOrDelete(distributedPlan) /\ IsMultiTaskPlan(distributedPlan)

\* the executors JobExecutorType chooses from, and the value of
\* MULTI_EXECUTOR_INVALID_FIRST the variable starts with
JobExecutorTypes ==
    {"MULTI_EXECUTOR_REAL_TIME", "MULTI_EXECUTOR_TASK_TRACKER",
     "MULTI_EXECUTOR_ROUTER", "MULTI_EXECUTOR_COORDINATOR_INSERT_SELECT"}

\* JobExecutorType(distributedPlan): its answer comes with the descriptor
JobExecutorType(distributedPlan) == distributedPlan.jobExecutorType

\* mutant: the executor is asked for whether or not the planning failed
ExecutorTypeOfIgnoresError(distributedPlan) == JobExecutorType(distributedPlan)

\* executorType as FinalizePlan has it before the switch
ExecutorTypeOf(distributedPlan) ==
    IF distributedPlan.planningError = ""
    THEN JobExecutorType(distributedPlan)
    ELSE "MULTI_EXECUTOR_INVALID_FIRST"

\* the switch of FinalizePlan
CustomScanMethods(executorType) ==
    CASE executorType = "MULTI_EXECUTOR_REAL_TIME" -> "RealTimeCustomScanMethods"
      [] executorType = "MULTI_EXECUTOR_TASK_TRACKER" ->
            "TaskTrackerCustomScanMethods"
      [] executorType = "MULTI_EXECUTOR_ROUTER" -> "RouterCustomScanMethods"
      [] executorType = "MULTI_EXECUTOR_COORDINATOR_INSERT_SELECT" ->
            "CoordinatorInsertSelectCustomScanMethods"
      [] OTHER -> "DelayedErrorCustomScanMethods"

\* RemoteScanRangeTableEntry(columnNameList)
RemoteScanRangeTableEntry(columnNameList) ==
    [rtekind |-> "RTE_VALUES",
     eref |-> [aliasname |-> "remote_scan", colnames |-> columnNameList],
     inh |-> FALSE, inFromCl |-> TRUE]

\* MasterNodeSelectPlan: the plan of the master query above the custom
\* scan, with the range table of that plan
MasterNodeSelectPlan(distributedPlan, customScan) ==
    [shape |-> "non_router",
     planTree |-> <<"master plan", distributedPlan.masterQuery[1]>>,
     customScan |-> customScan,
     rtable |-> <<RemoteScanRangeTableEntry(<<>>)>>,
     canSetTag |-> TRUE, relationOids |-> <<>>,
     queryId |-> 0, utilityStmt |-> <<>>,
     commandType |-> "CMD_SELECT", hasReturning |-> FALSE]

FinalizeNonRouterPlan(localPlan, distributedPlan, customScan) ==
    LET finalPlan == MasterNodeSelectPlan(distributedPlan, customScan)
    IN  [finalPlan EXCEPT !.queryId = localPlan.queryId,
                          !.utilityStmt = localPlan.utilityStmt,
                          !.rtable = @ \o localPlan.rtable]

\* the target list FinalizeRouterPlan builds: one Var on the custom scan per
\* target entry of the local plan that is not junk
RECURSIVE RouterTargetList(_, _)
RouterTargetList(targetlist, customScanRangeTableIndex) ==
    IF targetlist = <<>> THEN <<>>
    ELSE LET targetEntry == Head(targetlist)
             rest == RouterTargetList(Tail(targetlist), customScanRangeTableIndex)
         IN  IF targetEntry.resjunk THEN rest
             ELSE <<[targetEntry EXCEPT
                        !.expr = [tag |-> "Var",
                                  varno |-> customScanRangeTableIndex,
                                  varattno |-> targetEntry.resno]]>> \o rest

\* mutant: the range table of the local plan is left out
FinalizeRouterPlanOwnEntriesOnly(localPlan, customScan) ==
    LET targetList == RouterTargetList(localPlan.targetlist, 1)
        columnNameList == [i \in 1..Len(targetList) |-> targetList[i].resname]
    IN  [shape |-> "router",
         planTree |-> <<"custom scan">>,
         customScan |-> [customScan EXCEPT !.targetlist = targetList],
         rtable |-> <<RemoteScanRangeTableEntry(columnNameList)>>,
         canSetTag |-> TRUE, relationOids |-> <<>>,
         queryId |-> localPlan.queryId, utilityStmt |-> localPlan.utilityStmt,
         commandType |-> localPlan.commandType,
         hasReturning |-> localPlan.hasReturning]

FinalizeRouterPlan(localPlan, customScan) ==
    LET targetList == RouterTargetList(localPlan.targetlist, 1)
        columnNameList == [i \in 1..Len(targetList) |-> targetList[i].resname]
    IN  [shape |-> "router",
         planTree |-> <<"custom scan">>,
         customScan |-> [customScan EXCEPT !.targetlist = targetList],
         rtable |-> <<RemoteScanRangeTableEntry(columnNameList)>>
                        \o localPlan.rtable,
         canSetTag |-> TRUE, relationOids |-> <<>>,
         queryId |-> localPlan.queryId, utilityStmt |-> localPlan.utilityStmt,
         commandType |-> localPlan.commandType,
         hasReturning |-> localPlan.hasReturning]

\* FinalizePlan: the final plan; customScanMethods, distributedPlan and
\* total_cost are the methods and the private data of its custom scan and
\* the cost of its plan tree, notices what it has reported on the way
FinalizePlan(localPlan, distributedPlan, multiTaskQueryLogLevel) ==
    LET executorType == ExecutorTypeOf(distributedPlan)
        descriptor == [distributedPlan EXCEPT
                          !.relationIdList = localPlan.relationOids]
        customScan == [methods |-> CustomScanMethods(executorType),
                       custom_private |-> <<descriptor>>,
                       flags |-> "CUSTOMPATH_SUPPORT_BACKWARD_SCAN",
                       targetlist |-> <<>>]
        finalPlan == IF distributedPlan.masterQuery # <<>>
                     THEN FinalizeNonRouterPlan(localPlan, descriptor, customScan)
                     ELSE FinalizeRouterPlan(localPlan, customScan)
    IN  [finalPlan |-> finalPlan,
         customScanMethods |-> finalPlan.customScan.methods,
         distributedPlan |-> finalPlan.customScan.custom_private[1],
         total_cost |-> "estimated",
         notices |-> IF /\ IsMultiTaskPlan(distributedPlan)
                        /\ multiTaskQueryLogLevel # "MULTI_TASK_QUERY_INFO_OFF"
                     THEN <<"multi-task query about to be executed">>
                     ELSE <<>>]

\* the plan standard_planner returns for a tree, as far as FinalizePlan
\* reads it
LocalPlan(tree, root) ==
    [rtable |-> tree[root].rtable,
     relationOids |-> [i \in 1..Len(RelationsPlanned(tree, root)) |->
                          RelationsPlanned(tree, root)[i].relid],
     targetlist |-> tree[root].targetList,
     queryId |-> 0, utilityStmt |-> <<>>,
     commandType |-> tree[root].commandType, hasReturning |-> FALSE]

\* mutant: the cost is left as estimated when the planning failed
ResultPlanInflatesForModifyOnly(resultPlan, distributedPlan, hasUnresolvedParams) ==
    IF IsMultiShardModifyPlan(distributedPlan) /\ hasUnresolvedParams
    THEN [resultPlan EXCEPT !.total_cost = "FLT_MAX / 100000000"]
    ELSE resultPlan

\* the plan CreateDistributedPlan returns: resultPlan is what FinalizePlan
\* has made of the descriptor
ResultPlan(resultPlan, distributedPlan, hasUnresolvedParams) ==
    IF /\ distributedPlan.planningError # "" \/ IsMultiShardModifyPlan(distributedPlan)
       /\ hasUnresolvedParams
    THEN [resultPlan EXCEPT !.total_cost = "FLT_MAX / 100000000"]
    ELSE resultPlan

(***************************************************************************)
(* Spec: one statement handed to the planner, under settings chosen at the *)
(* start.                                                                  *)
(***************************************************************************)
\* verdict plans of the statements
Reject == [DefaultVerdict EXCEPT !.router = "reject"]

Materialize == [DefaultVerdict EXCEPT !.pushdownError = TRUE]

NonColocated == [DefaultVerdict EXCEPT !.equivalent = FALSE]

RootVerdicts ==
    {<<Reject>>, <<DefaultVerdict>>, <<Reject, DefaultVerdict>>,
     <<[Reject EXCEPT !.equivalent = FALSE]>>}

SubqueryVerdicts ==
    {<<DefaultVerdict>>, <<Materialize>>, <<NonColocated>>,
     <<DefaultVerdict, Materialize>>,
     <<[Reject EXCEPT !.pushdownError = TRUE]>>}

DeepVerdicts == {<<DefaultVerdict>>, <<Materialize>>, <<DefaultVerdict, Materialize>>}

Select(rtable, sublinks, verdicts) ==
    [Query("CMD_SELECT", rtable, sublinks) EXCEPT !.verdicts = verdicts]

LeftJoinOf(query) ==
    [query EXCEPT !.fromlist = <<JoinExpr("JOIN_LEFT", RangeTblRef(1), RangeTblRef(2))>>]

\* the statements, by shape
PlanTree(shape, rootVerdicts, subVerdicts, deepVerdicts) ==
    CASE shape = "plain" ->
            <<Select(<<RelationRTE("dist_a"), RelationRTE("dist_b")>>, <<>>, rootVerdicts)>>
      [] shape = "recursive_cte" ->
            <<[Select(<<RelationRTE("dist_a")>>, <<>>, rootVerdicts)
                  EXCEPT !.hasRecursive = TRUE,
                         !.cteList = <<[ctename |-> "cte", ctequery |-> 2]>>],
              Select(<<RelationRTE("dist_b")>>, <<>>, subVerdicts)>>
      [] shape = "modifying_cte" ->
            <<[Select(<<RelationRTE("dist_a")>>, <<>>, rootVerdicts)
                  EXCEPT !.hasModifyingCTE = TRUE,
                         !.cteList = <<[ctename |-> "cte", ctequery |-> 2]>>],
              [Select(<<RelationRTE("dist_b")>>, <<>>, subVerdicts)
                  EXCEPT !.commandType = "CMD_UPDATE"]>>
      [] shape = "modifying_recursive_cte" ->
            <<[Select(<<RelationRTE("dist_a")>>, <<>>, rootVerdicts)
                  EXCEPT !.hasRecursive = TRUE, !.hasModifyingCTE = TRUE,
                         !.cteList = <<[ctename |-> "cte", ctequery |-> 2]>>],
              [Select(<<RelationRTE("dist_b")>>, <<>>, subVerdicts)
                  EXCEPT !.commandType = "CMD_UPDATE"]>>
      [] shape = "parameter" ->
            <<[Select(<<RelationRTE("dist_a")>>, <<>>, rootVerdicts)
                  EXCEPT !.externParams =
                      <<[paramkind |-> "PARAM_EXTERN", paramid |-> 1]>>]>>
      [] shape = "from_subquery" ->
            <<Select(<<RelationRTE("dist_a"), SubqueryRTE(2)>>, <<>>, rootVerdicts),
              Select(<<RelationRTE("dist_b")>>, <<>>, subVerdicts)>>
      [] shape = "nested_subquery" ->
            <<Select(<<RelationRTE("dist_a"), SubqueryRTE(2)>>, <<>>, rootVerdicts),
              Select(<<RelationRTE("dist_b"), SubqueryRTE(3)>>, <<>>, subVerdicts),
              Select(<<RelationRTE("dist_a")>>, <<>>, deepVerdicts)>>
      [] shape = "left_join" ->
            <<LeftJoinOf(Select(<<RelationRTE("ref_r"), SubqueryRTE(2)>>, <<>>,
                                rootVerdicts)),
              Select(<<RelationRTE("dist_b")>>, <<>>, subVerdicts)>>
      [] shape = "sublink_left_join" ->
            <<Select(<<RelationRTE("dist_a")>>, <<2>>, rootVerdicts),
              LeftJoinOf(Select(<<RelationRTE("ref_r"), SubqueryRTE(3)>>, <<>>,
                                subVerdicts)),
              [Select(<<RelationRTE("dist_b")>>, <<>>, deepVerdicts)
                  EXCEPT !.varlevelsup = 2]>>
      [] shape = "correlated_sublink" ->
            <<Select(<<RelationRTE("dist_a")>>, <<2>>, rootVerdicts),
              [Select(<<RelationRTE("dist_b"), RelationRTE("dist_a")>>, <<>>,
                      subVerdicts)
                  EXCEPT !.varlevelsup = 1]>>
      [] shape = "union" ->
            <<[Select(<<SubqueryRTE(2), SubqueryRTE(3)>>, <<>>, rootVerdicts)
                  EXCEPT !.setOperations =
                      SetOperationStmt("SETOP_UNION", RangeTblRef(1), RangeTblRef(2))],
              Select(<<RelationRTE("dist_a")>>, <<>>, subVerdicts),
              [Select(<<RelationRTE("dist_b")>>, <<>>, deepVerdicts)
                  EXCEPT !.varlevelsup = 0]>>
      [] shape = "cte" ->
            <<[Select(<<CteRTE("cte", 0), RelationRTE("dist_a")>>, <<>>, rootVerdicts)
                  EXCEPT !.cteList = <<[ctename |-> "cte", ctequery |-> 2]>>],
              Select(<<RelationRTE("dist_b")>>, <<>>, subVerdicts)>>
      [] shape = "local" ->
            <<Select(<<RelationRTE("local_l")>>, <<>>, rootVerdicts)>>
      [] shape = "mixed" ->
            <<Select(<<RelationRTE("local_l"), RelationRTE("dist_a")>>, <<>>,
                     rootVerdicts)>>
      [] shape = "left_join_mixed" ->
            <<LeftJoinOf(Select(<<RelationRTE("ref_r"), SubqueryRTE(2)>>, <<>>,
                                rootVerdicts)),
              Select(<<RelationRTE("dist_b"), RelationRTE("local_l")>>, <<>>,
                     subVerdicts)>>
      [] shape = "update" ->
            <<[Select(<<RelationRTE("dist_a")>>, <<>>, rootVerdicts)
                  EXCEPT !.commandType = "CMD_UPDATE", !.resultRelation = 1]>>
      [] shape = "function_call" ->
            <<Select(<<>>, <<>>, rootVerdicts)>>
      [] shape = "update_parameter" ->
            <<[Select(<<RelationRTE("dist_a")>>, <<>>, rootVerdicts)
                  EXCEPT !.commandType = "CMD_UPDATE", !.resultRelation = 1,
                         !.externParams =
                             <<[paramkind |-> "PARAM_EXTERN", paramid |-> 1]>>]>>

ShapesWithoutSubquery ==
    {"plain", "parameter", "local", "mixed", "update", "update_parameter"}

ShapesWithSubquery ==
    {"recursive_cte", "modifying_cte", "modifying_recursive_cte",
     "from_subquery", "left_join", "cte", "correlated_sublink",
     "left_join_mixed"}

ShapesWithTwoSubqueries == {"nested_subquery", "sublink_left_join", "union"}

PlanTrees ==
    {PlanTree("function_call", <<DefaultVerdict>>, <<DefaultVerdict>>,
              <<DefaultVerdict>>)}
    \cup
    {PlanTree(shape, rootVerdicts, <<DefaultVerdict>>, <<DefaultVerdict>>) :
        shape \in ShapesWithoutSubquery, rootVerdicts \in RootVerdicts}
    \cup
    {PlanTree(shape, rootVerdicts, subVerdicts, <<DefaultVerdict>>) :
        shape \in ShapesWithSubquery, rootVerdicts \in RootVerdicts,
        subVerdicts \in SubqueryVerdicts}
    \cup
    {PlanTree(shape, rootVerdicts, subVerdicts, deepVerdicts) :
        shape \in ShapesWithTwoSubqueries, rootVerdicts \in RootVerdicts,
        subVerdicts \in SubqueryVerdicts, deepVerdicts \in DeepVerdicts}

Configs ==
    {DefaultConfig,
     [DefaultConfig EXCEPT !.SubqueryPushdown = TRUE],
     [DefaultConfig EXCEPT !.EnableRouterExecution = FALSE]}

Init ==
    /\ IdleClassify
    /\ IdleResult
    /\ IdleIdent
    /\ IdleJoin
    /\ IdlePass
    /\ IdleFinalize
    /\ plannerRestrictionContextList = <<>>
    /\ NextPlanId = 1
    /\ frames = <<>>
    /\ pConfig \in Configs
    /\ pInput = <<>>
    /\ subPlanLog = <<>>
    /\ lastExit = <<>>

\* what a frame leaves behind when its call ends
ExitOf(frame, depth, contextList, status, error) ==
    <<[frame |-> frame, depth |-> depth, exitDepth |-> Len(contextList),
       status |-> status, error |-> error]>>

\* the caller once planner() has returned a sub-plan: it is appended to the
\* list of the pass
AfterSubPlan(caller) ==
    [caller EXCEPT !.pc = "pass", !.pending = <<>>,
                   !.passes[Len(caller.passes)].done = @ + 1]

\* the caller once planner() has raised: control is in its PG_CATCH
AfterSubPlanError(caller, error) ==
    [caller EXCEPT !.pc = "catch", !.error = error]

\* (ownPlanId is the plan id drawn by the planner call that made the
\* sub-plan, 0 when that call did no distributed planning)
LogEntry(subPlan, pass, ownPlanId) ==
    [planId |-> subPlan.planId, subPlanId |-> subPlan.subPlanId,
     pass |-> pass, site |-> subPlan.site, node |-> subPlan.node,
     ownPlanId |-> ownPlanId,
     outerReference |->
         ContainsReferencesToOuterQuery(subPlan.treeAtCall, subPlan.node)]

\* planner(parse, cursorOptions, boundParams) called by the host
Plan(tree, boundParams, forceDistributed) ==
    LET entered == EnterPlanner(tree, 1, forceDistributed, boundParams, pConfig,
                                Len(plannerRestrictionContextList))
    IN  /\ frames = <<>>
        /\ pInput = <<>>
        /\ pInput' = <<[tree |-> tree, boundParams |-> boundParams,
                        forceDistributed |-> forceDistributed]>>
        /\ IF entered.raised
           THEN /\ lastExit' = ExitOf([entered.frame EXCEPT !.pushes = 0], 1,
                                      plannerRestrictionContextList,
                                      "error", entered.error)
                /\ UNCHANGED <<frames, plannerRestrictionContextList>>
           ELSE /\ frames' = <<entered.frame>>
                /\ plannerRestrictionContextList' =
                       CreateAndPushPlannerRestrictionContext(
                           plannerRestrictionContextList)
                /\ UNCHANGED lastExit
        /\ UNCHANGED <<NextPlanId, pConfig, subPlanLog, notPlan>>

\* mutant: the counter is read and not advanced
PostIncrementKeepsValue(planId) == planId

\* NextPlanId++: the value of the counter afterwards
PostIncrement(planId) == planId + 1

\* standard_planner(parse, ...) and, for a distributed query, the draw of
\* the plan id; inlined: the host planner has put a distributed table into
\* the tree of a query that did not need distributed planning
StandardPlanner(outcome) ==
    LET frame == Top(frames)
        inlined == [frame.parse EXCEPT ![frame.root].rtable =
                       Append(@, RelationRTE("dist_a"))]
    IN  /\ frames # <<>>
        /\ frame.pc = "standard_planner"
        /\ outcome = "inlined" => ~frame.needsDistributedPlanning
        /\ CASE outcome = "error" ->
                  /\ frames' = SetTop(frames,
                         [frame EXCEPT !.pc = "catch", !.error = "host planner error"])
                  /\ UNCHANGED <<plannerRestrictionContextList, NextPlanId>>
             [] outcome = "inlined" ->
                  /\ frames' = SetTop(frames,
                         [frame EXCEPT !.pc = "end_try", !.parse = inlined])
                  /\ plannerRestrictionContextList' = StandardPlannerHooks(
                         plannerRestrictionContextList, inlined, frame.root)
                  /\ UNCHANGED NextPlanId
             [] OTHER ->
                  /\ plannerRestrictionContextList' = StandardPlannerHooks(
                         plannerRestrictionContextList, frame.parse, frame.root)
                  /\ IF frame.needsDistributedPlanning
                     THEN /\ frames' = SetTop(frames,
                                 [frame EXCEPT !.pc = "create_plan",
                                               !.planId = NextPlanId])
                          /\ NextPlanId' = PostIncrement(NextPlanId)
                     ELSE /\ frames' = SetTop(frames, [frame EXCEPT !.pc = "end_try"])
                          /\ UNCHANGED NextPlanId
        /\ UNCHANGED <<pConfig, pInput, subPlanLog, lastExit, notPlan>>

\* CreateDistributedPlan up to the call of the planner for the command;
\* error: EnsureModificationsCanRun raises; multi_task: the plan of the
\* modification has more than one task
CreateDistributedPlan(outcome) ==
    LET frame == Top(frames)
        unresolved == HasUnresolvedExternParamsWalker(
                          frame.originalQuery[1], frame.root, frame.boundParams)
        verdict == VerdictOf(frame.originalQuery[1][frame.root], 1)
        modifyError == IF verdict.router = "accept" THEN ""
                       ELSE "cannot run this modification"
    IN  /\ frames # <<>>
        /\ frame.pc = "create_plan"
        /\ outcome # "ok" => IsModifyCommand(frame.parse[frame.root])
        /\ frames' = SetTop(frames,
              IF IsModifyCommand(frame.parse[frame.root])
              THEN IF outcome = "error"
                   THEN [frame EXCEPT !.pc = "catch",
                                      !.hasUnresolvedParams = unresolved,
                                      !.error = "modifications cannot run"]
                   ELSE [frame EXCEPT !.pc = "finish_plan",
                                      !.hasUnresolvedParams = unresolved,
                                      !.plan = <<[DistributedPlan(frame, modifyError)
                                                    EXCEPT !.multiTask =
                                                        (outcome = "multi_task")]>>]
              ELSE [frame EXCEPT !.pc = "select_plan",
                                 !.hasUnresolvedParams = unresolved])
        /\ UNCHANGED <<plannerRestrictionContextList, NextPlanId, pConfig, pInput,
                       subPlanLog, lastExit, notPlan>>

\* CreateDistributedSelectPlan from its entry to the call of
\* PlanPullPushSubqueries
CreateDistributedSelectPlan ==
    LET frame == Top(frames)
        pass == Len(frame.passes) + 1
        original == frame.originalQuery[1]
        verdict == VerdictOf(original[frame.root], pass)
        hasUnresolvedParams == pass = 1 /\ frame.hasUnresolvedParams
    IN  /\ frames # <<>>
        /\ frame.pc = "select_plan"
        /\ frames' = SetTop(frames,
              IF frame.config.EnableRouterExecution /\ verdict.router = "accept"
              THEN [frame EXCEPT !.pc = "finish_plan",
                                 !.plan = <<DistributedPlan(frame, "")>>]
              ELSE IF hasUnresolvedParams
              THEN [frame EXCEPT !.pc = "finish_plan", !.plan = <<>>]
              ELSE [frame EXCEPT !.pc = "pass",
                                 !.passes = Append(@, [start |-> original,
                                                       done |-> 0,
                                                       subPlanList |-> <<>>])])
        /\ UNCHANGED <<plannerRestrictionContextList, NextPlanId, pConfig, pInput,
                       subPlanLog, lastExit, notPlan>>

\* planner(copy of the subquery or CTE, ...) called by the pass
PlanSubPlan(frame, subPlan) ==
    LET entered == EnterPlanner(subPlan.treeAtCall, subPlan.node,
                                subPlan.forceDistributed, <<>>, frame.config,
                                Len(plannerRestrictionContextList))
    IN  IF entered.raised
        THEN /\ frames' = SetTop(frames, AfterSubPlanError(frame, entered.error))
             /\ lastExit' = ExitOf([entered.frame EXCEPT !.pushes = 0],
                                   Len(frames) + 1,
                                   plannerRestrictionContextList,
                                   "error", entered.error)
             /\ UNCHANGED plannerRestrictionContextList
        ELSE /\ frames' = Append(SetTop(frames,
                                        [frame EXCEPT !.pc = "await",
                                                      !.pending = <<subPlan>>]),
                                 entered.frame)
             /\ plannerRestrictionContextList' =
                    CreateAndPushPlannerRestrictionContext(
                        plannerRestrictionContextList)
             /\ UNCHANGED lastExit

\* mutant: the tree is planned again whether or not the pass made a sub-plan
FinishPassAlwaysReplans(frame, run) ==
    LET ended == [frame EXCEPT
                     !.originalQuery = <<run.context.tree>>,
                     !.passes[Len(frame.passes)].subPlanList =
                         run.context.subPlanList]
    IN  /\ frames' = SetTop(frames,
              IF run.context.status = "raised"
              THEN [ended EXCEPT !.pc = "catch", !.error = run.context.error]
              ELSE IF run.error # ""
              THEN [ended EXCEPT !.pc = "catch", !.error = run.error]
              ELSE [ended EXCEPT !.pc = "replan"])
        /\ UNCHANGED <<plannerRestrictionContextList, lastExit>>

\* PlanPullPushSubqueries has returned or raised; originalQuery is as the
\* pass has left it
FinishPass(frame, run) ==
    LET ended == [frame EXCEPT
                     !.originalQuery = <<run.context.tree>>,
                     !.passes[Len(frame.passes)].subPlanList =
                         run.context.subPlanList]
    IN  /\ frames' = SetTop(frames,
              IF run.context.status = "raised"
              THEN [ended EXCEPT !.pc = "catch", !.error = run.context.error]
              ELSE IF run.error # ""
              THEN [ended EXCEPT !.pc = "catch", !.error = run.error]
              ELSE IF run.context.subPlanList # <<>>
              THEN [ended EXCEPT !.pc = "replan"]
              ELSE [ended EXCEPT !.pc = "logical_plan"])
        /\ UNCHANGED <<plannerRestrictionContextList, lastExit>>

\* the pass, run from where it stands to its next planner call or its end
PassStep(frame, run) ==
    IF Len(run.context.subPlanList) > Top(frame.passes).done
    THEN PlanSubPlan(frame, Top(run.context.subPlanList))
    ELSE FinishPass(frame, run)

\* PlanPullPushSubqueries(originalQuery, &pullPushContext), one planner call
\* at a time
PlanPullPushSubqueriesStep ==
    /\ frames # <<>>
    /\ Top(frames).pc = "pass"
    /\ \E run \in {RunPass(Top(frames), Top(Top(frames).passes).done + 1)} :
          PassStep(Top(frames), run)
    /\ UNCHANGED <<NextPlanId, pConfig, pInput, subPlanLog, notPlan>>

\* the re-planning block of CreateDistributedSelectPlan, up to the recursive
\* call
Replan(outcome) ==
    LET frame == Top(frames)
        newQuery == AdjustPartitioningForDistributedPlanning(
                        AssignRTEIdentities(frame.originalQuery[1], frame.root),
                        frame.root, FALSE)
        fresh == CreateAndPushPlannerRestrictionContext(
                     PopPlannerRestrictionContext(plannerRestrictionContextList))
    IN  /\ frames # <<>>
        /\ frame.pc = "replan"
        /\ IF outcome = "error"
           THEN /\ plannerRestrictionContextList' = fresh
                /\ frames' = SetTop(frames,
                       [frame EXCEPT !.pc = "catch", !.error = "host planner error",
                                     !.pushes = @ + 1, !.pops = @ + 1])
           ELSE \E replanned \in {newQuery} :
                   /\ plannerRestrictionContextList' =
                          StandardPlannerHooks(fresh, replanned, frame.root)
                   /\ frames' = SetTop(frames,
                          [frame EXCEPT !.pc = "select_plan", !.parse = replanned,
                                        !.pushes = @ + 1, !.pops = @ + 1])
        /\ UNCHANGED <<NextPlanId, pConfig, pInput, subPlanLog, lastExit, notPlan>>

\* MultiLogicalPlanCreate ... CreatePhysicalDistributedPlan
\* (the plan has a master query; the task executor of the session is the
\* real-time one)
LogicalPlan(outcome) ==
    LET frame == Top(frames)
    IN  /\ frames # <<>>
        /\ frame.pc = "logical_plan"
        /\ frames' = SetTop(frames,
              IF outcome = "error"
              THEN [frame EXCEPT !.pc = "catch",
                                 !.error = "logical planner error"]
              ELSE [frame EXCEPT !.pc = "finish_plan",
                                 !.plan = <<[DistributedPlan(frame, "") EXCEPT
                                               !.masterQuery = <<"masterQuery">>,
                                               !.jobExecutorType =
                                                   "MULTI_EXECUTOR_REAL_TIME"]>>])
        /\ UNCHANGED <<plannerRestrictionContextList, NextPlanId, pConfig, pInput,
                       subPlanLog, lastExit, notPlan>>

\* the tail of CreateDistributedPlan
FinishPlan ==
    LET frame == Top(frames)
        distributedPlan ==
            IF frame.plan = <<>>
            THEN DistributedPlan(frame, "could not create distributed plan")
            ELSE frame.plan[1]
    IN  /\ frames # <<>>
        /\ frame.pc = "finish_plan"
        /\ frames' = SetTop(frames,
              IF distributedPlan.planningError # "" /\ ~frame.hasUnresolvedParams
              THEN [frame EXCEPT !.pc = "catch",
                                 !.error = distributedPlan.planningError]
              ELSE [frame EXCEPT !.pc = "end_try", !.plan = <<distributedPlan>>,
                                 !.resultPlan =
                                     <<ResultPlan(
                                           FinalizePlan(
                                               LocalPlan(frame.parse, frame.root),
                                               distributedPlan,
                                               frame.config.MultiTaskQueryLogLevel),
                                           distributedPlan,
                                           frame.hasUnresolvedParams)>>])
        /\ UNCHANGED <<plannerRestrictionContextList, NextPlanId, pConfig, pInput,
                       subPlanLog, lastExit, notPlan>>

\* the end of a call: what the caller, if any, goes on with
Leave(frame, contextList, status, error) ==
    /\ plannerRestrictionContextList' = contextList
    /\ lastExit' = ExitOf(frame, Len(frames), contextList, status, error)
    /\ IF Len(frames) = 1
       THEN /\ frames' = <<>>
            /\ UNCHANGED subPlanLog
       ELSE LET caller == Top(Below(frames))
            IN  IF status = "returned"
                THEN /\ frames' = SetTop(Below(frames), AfterSubPlan(caller))
                     /\ subPlanLog' = Append(subPlanLog,
                            LogEntry(caller.pending[1], Len(caller.passes),
                                     frame.planId))
                ELSE /\ frames' = SetTop(Below(frames),
                                         AfterSubPlanError(caller, error))
                     /\ UNCHANGED subPlanLog

\* distributed_planner after PG_END_TRY
EndTry ==
    LET frame == Top(frames)
        popped == [frame EXCEPT
                      !.pc = "left", !.pops = @ + 1,
                      !.parse = IF frame.needsDistributedPlanning
                                THEN AdjustPartitioningForDistributedPlanning(
                                         @, frame.root, TRUE)
                                ELSE @]
        classified == NeedsDistributedPlanning(frame.parse, frame.root, TRUE)
    IN  /\ frames # <<>>
        /\ frame.pc = "end_try"
        /\ IF ~frame.needsDistributedPlanning /\ classified # "false"
           THEN Leave(popped,
                      PopPlannerRestrictionContext(plannerRestrictionContextList),
                      "error",
                      IF classified = "true"
                      THEN "cannot perform distributed planning on this query"
                      ELSE classified)
           ELSE Leave(popped,
                      PopPlannerRestrictionContext(plannerRestrictionContextList),
                      "returned", "")
        /\ UNCHANGED <<NextPlanId, pConfig, pInput, notPlan>>

\* PG_CATCH of distributed_planner
Catch ==
    LET frame == Top(frames)
    IN  /\ frames # <<>>
        /\ frame.pc = "catch"
        /\ Leave([frame EXCEPT !.pc = "left", !.pops = @ + 1],
                 CatchContextList(plannerRestrictionContextList),
                 "error", frame.error)
        /\ UNCHANGED <<NextPlanId, pConfig, pInput, notPlan>>

Next ==
    \/ \E tree \in PlanTrees, boundParams \in {<<>>, <<"valid">>},
          forceDistributed \in {FALSE} :
          Plan(tree, boundParams, forceDistributed)
    \/ \E outcome \in {"ok", "error", "inlined"} : StandardPlanner(outcome)
    \/ \E outcome \in {"ok", "error", "multi_task"} : CreateDistributedPlan(outcome)
    \/ CreateDistributedSelectPlan
    \/ PlanPullPushSubqueriesStep
    \/ \E outcome \in {"ok", "error"} : Replan(outcome)
    \/ \E outcome \in {"ok", "error"} : LogicalPlan(outcome)
    \/ FinishPlan
    \/ EndTry
    \/ Catch

Spec == Init /\ [][Next]_vars

(***************************************************************************)
(* Properties of Spec.                                                     *)
(***************************************************************************)
\* the statement handed to the planner and the way its call ended
TopLevelExit == frames = <<>> /\ pInput # <<>> /\ lastExit # <<>>

\* C1: every call of distributed_planner, nested or not, re-planning or
\* not, leaves the restriction-context stack as deep as it found it, on
\* return and on every error, and has then popped exactly as often as it
\* has pushed; while calls are in progress the stack holds one context per
\* call.
C1_StackBalanced ==
    /\ Len(plannerRestrictionContextList) = Len(frames)
    /\ lastExit # <<>> =>
          /\ lastExit[1].exitDepth = lastExit[1].frame.entryDepth
          /\ lastExit[1].frame.pushes = lastExit[1].frame.pops

\* a statement whose planning produced a sub-plan in a nested call,
\* re-planned the rewritten tree and then ended with an error
C1_Witness ==
    /\ TopLevelExit
    /\ lastExit[1].status = "error"
    /\ lastExit[1].frame.pushes = 2
    /\ subPlanLog # <<>>

\* C3: under one plan id the sub-plan id of every sub-plan is the number of
\* sub-plans produced before it under that plan id, over all passes.
C3_SubPlanIdsCountUp ==
    \A i \in 1..Len(subPlanLog) :
        subPlanLog[i].subPlanId =
            Cardinality({j \in 1..(i - 1) :
                            subPlanLog[j].planId = subPlanLog[i].planId})

\* C4: no sub-plan is produced for a subquery that refers to an enclosing
\* query.
C4_NoOuterReferenceMaterialized ==
    \A i \in 1..Len(subPlanLog) : ~subPlanLog[i].outerReference

\* a distributed SELECT whose top-level query has a recursive or a
\* modifying CTE, and whose planning has ended otherwise than by an error
\* of the host planner
C10_Case ==
    /\ TopLevelExit
    /\ lastExit[1].frame.needsDistributedPlanning
    /\ pInput[1].tree[1].commandType = "CMD_SELECT"
    /\ pInput[1].tree[1].hasRecursive \/ pInput[1].tree[1].hasModifyingCTE
    /\ lastExit[1].error # "host planner error"

\* the call ended in the error of the CTE step, with no sub-plan produced
\* and originalQuery as it was when the step began
C10_RejectedUntouched ==
    /\ lastExit[1].status = "error"
    /\ lastExit[1].error =
          IF pInput[1].tree[1].hasModifyingCTE
          THEN ModifyingCteError ELSE RecursiveCteError
    /\ subPlanLog = <<>>
    /\ Len(lastExit[1].frame.passes) = 1
    /\ lastExit[1].frame.originalQuery[1] = lastExit[1].frame.passes[1].start

\* C10 as stated: planning a distributed SELECT with a recursive or
\* modifying CTE always ends in the feature-not-supported error, nothing
\* planned or rewritten before it.
C10_AlwaysRejected == C10_Case => C10_RejectedUntouched

\* C10: it does so when the router planner does not produce a plan, the
\* statement has no unresolved parameter and subquery pushdown is off.
C10_RejectedByOrchestrator ==
    (/\ C10_Case
     /\ ~(/\ pConfig.EnableRouterExecution
          /\ VerdictOf(pInput[1].tree[1], 1).router = "accept")
     /\ ~HasUnresolvedExternParamsWalker(pInput[1].tree, 1, pInput[1].boundParams)
     /\ ~pConfig.SubqueryPushdown)
    => C10_RejectedUntouched

C10_Witness ==
    /\ C10_Case
    /\ pInput[1].tree[1].hasRecursive
    /\ ~pInput[1].tree[1].hasModifyingCTE
    /\ ~pConfig.SubqueryPushdown
    /\ lastExit[1].error = RecursiveCteError
    /\ C10_RejectedUntouched

\* the nodes of the sub-plans produced so far, in order of production
SubPlanNodes == [i \in 1..Len(subPlanLog) |-> subPlanLog[i].node]

\* a top-level UNION of two subqueries over distributed tables, both
\* rejected by the pushdown check, under the default settings, the router
\* planner not accepting the statement
C11_Case ==
    /\ pInput # <<>>
    /\ pInput[1].tree[1].setOperations # NoNode
    /\ pInput[1].tree[1].setOperations.op = "SETOP_UNION"
    /\ ~pConfig.SubqueryPushdown
    /\ pConfig.EnableRouterExecution
    /\ VerdictOf(pInput[1].tree[1], 1).router # "accept"
    /\ \A branch \in {2, 3} :
          /\ QueryContainsDistributedTableRTE(pInput[1].tree, branch)
          /\ VerdictOf(pInput[1].tree[branch], 1).pushdownError

\* C11: planning such a UNION produces exactly two sub-plans, one for each
\* branch: at no time has a branch been planned twice, both are planned in
\* the first pass with ids 0 and 1, and when the planner has re-planned the
\* rewritten tree or returned, the sub-plans are those of the two branches.
C11_UnionTwoSubPlans ==
    C11_Case =>
        /\ Len(subPlanLog) <= 2
        /\ \A i \in 1..Len(subPlanLog) :
              /\ subPlanLog[i].node = i + 1
              /\ subPlanLog[i].subPlanId = i - 1
              /\ subPlanLog[i].pass = 1
        /\ (TopLevelExit /\ lastExit[1].status = "returned")
              => /\ SubPlanNodes = <<2, 3>>
                 /\ Len(lastExit[1].frame.plan[1].subPlanList) = 2

C11_Witness ==
    /\ C11_Case
    /\ TopLevelExit
    /\ lastExit[1].status = "returned"
    /\ SubPlanNodes = <<2, 3>>
    /\ \A i \in 1..2 : subPlanLog[i].site = "subquery"


C13_Case ==
    /\ pInput # <<>>
    /\ Len(pInput[1].tree) = 1
    /\ LET query == pInput[1].tree[1]
       IN  /\ query.commandType = "CMD_SELECT"
           /\ [i \in 1..Len(query.rtable) |-> query.rtable[i].relid]
                 = <<"dist_a", "dist_b">>
           /\ \A i \in 1..Len(query.rtable) :
                 /\ query.rtable[i].rtekind = "RTE_RELATION"
                 /\ PartitionMethod(query.rtable[i].relid) = "DISTRIBUTE_BY_HASH"
           /\ query.fromlist = DefaultFromList(query.rtable)
           /\ query.sublinks = <<>> /\ query.cteList = <<>>
           /\ query.setOperations = NoNode
           /\ VerdictOf(query, 1).equivalent

\* C13: a SELECT joining two colocated hash-distributed relations on their
\* distribution keys, without subquery, CTE, set operation or outer join, is
\* planned with no sub-plan and with originalQuery as it was handed over
\* (identities assigned, nothing else), whether the router planner takes it
\* or the orchestrator runs on it; the orchestrator never asks for a
\* re-planning pass and raises nothing
C13_ColocatedJoinUntouched ==
    C13_Case =>
        /\ subPlanLog = <<>>
        /\ Len(frames) <= 1
        /\ \A i \in 1..Len(frames) :
              /\ frames[i].pending = <<>>
              /\ frames[i].pc # "replan"
              /\ Len(frames[i].passes) <= 1
              /\ \A p \in 1..Len(frames[i].passes) :
                    frames[i].passes[p].subPlanList = <<>>
              /\ frames[i].originalQuery =
                    <<AssignRTEIdentities(pInput[1].tree, 1)>>
        /\ TopLevelExit =>
              /\ lastExit[1].status = "error" =>
                    lastExit[1].error \in {"host planner error",
                                           "logical planner error"}
              /\ lastExit[1].status = "returned" =>
                    /\ lastExit[1].frame.plan[1].subPlanList = <<>>
                    /\ lastExit[1].frame.plan[1].planningError = ""

\* the router planner has rejected the join, the orchestrator has run and the
\* logical planner has made the plan
C13_Witness ==
    /\ C13_Case
    /\ TopLevelExit
    /\ lastExit[1].status = "returned"
    /\ Len(lastExit[1].frame.passes) = 1
    /\ VerdictOf(pInput[1].tree[1], 1).router = "reject"

\* C13: the router planner has taken the join
C13_WitnessRouter ==
    /\ C13_Case
    /\ TopLevelExit
    /\ lastExit[1].status = "returned"
    /\ lastExit[1].frame.passes = <<>>
    /\ VerdictOf(pInput[1].tree[1], 1).router = "accept"
    /\ pConfig.EnableRouterExecution

\* the planning error of the descriptor CreateDistributedPlan holds before
\* its last block ("" for none)
DescriptorError(frame) ==
    IF frame.plan = <<>> THEN "could not create distributed plan"
    ELSE frame.plan[1].planningError

UnresolvedAtEntry(frame) ==
    HasUnresolvedExternParamsWalker(frame.input, frame.root, frame.boundParams)

\* C15: the last block of CreateDistributedPlan raises the planning error of
\* the descriptor if and only if there is one and the query has no
\* unresolved external parameter; with a planning error and an unresolved
\* parameter it returns a plan with the inflated cost and the delayed-error
\* custom scan; a plan returned for a query without unresolved parameters
\* carries no planning error, and the orchestrator, which can raise on its
\* own, runs only when no parameter is unresolved
C15_DeferredErrorRaised ==
    /\ [][(frames # <<>> /\ Top(frames).pc = "finish_plan") =>
            LET frame == Top(frames)
                after == frames'[Len(frames)]
            IN  /\ Len(frames') = Len(frames)
                /\ after.pc = "catch" <=>
                      (DescriptorError(frame) # "" /\ ~UnresolvedAtEntry(frame))
                /\ after.pc = "catch" => after.error = DescriptorError(frame)
                /\ after.pc # "catch" =>
                      /\ after.pc = "end_try"
                      /\ after.resultPlan # <<>>
                      /\ after.resultPlan[1].distributedPlan.planningError
                            = DescriptorError(frame)
                      /\ DescriptorError(frame) # "" =>
                            /\ after.resultPlan[1].total_cost = "FLT_MAX / 100000000"
                            /\ after.resultPlan[1].customScanMethods
                                  = "DelayedErrorCustomScanMethods"]_vars
    /\ [](\A i \in 1..Len(frames) :
             /\ (frames[i].resultPlan # <<>> /\ ~UnresolvedAtEntry(frames[i])) =>
                    frames[i].resultPlan[1].distributedPlan.planningError = ""
             /\ frames[i].pc = "pass" => ~UnresolvedAtEntry(frames[i]))

\* a SELECT with an unbound parameter that the router planner rejects has
\* come back with a plan that carries the planning error
C15_Witness ==
    /\ TopLevelExit
    /\ lastExit[1].status = "returned"
    /\ UnresolvedAtEntry(lastExit[1].frame)
    /\ lastExit[1].frame.resultPlan # <<>>
    /\ lastExit[1].frame.resultPlan[1].distributedPlan.planningError # ""
    /\ lastExit[1].frame.resultPlan[1].total_cost = "FLT_MAX / 100000000"

\* C15: a modification with all parameters bound whose plan carries a
\* planning error has ended with that error
C15_WitnessRaised ==
    /\ TopLevelExit
    /\ lastExit[1].status = "error"
    /\ lastExit[1].error = "cannot run this modification"
    /\ ~UnresolvedAtEntry(lastExit[1].frame)
    /\ lastExit[1].frame.input[1].externParams # <<>>

\* the call that ended last went through PG_END_TRY with a tree that the
\* classifier had found local at entry and finds distributed afterwards
C16_Case ==
    /\ lastExit # <<>>
    /\ lastExit[1].frame.pushes > 0
    /\ lastExit[1].frame.error = ""
    /\ ~lastExit[1].frame.needsDistributedPlanning
    /\ NeedsDistributedPlanning(lastExit[1].frame.input,
                                lastExit[1].frame.root, TRUE) = "false"
    /\ NeedsDistributedPlanning(lastExit[1].frame.parse,
                                lastExit[1].frame.root, TRUE) = "true"

\* C16: a call whose query needed no distributed planning at entry, and was
\* not forced to it, but needs it once the host planner has transformed the tree ends
\* with the feature-not-supported error instead of a plan, and the
\* restriction context pushed for the call is off the stack by then
C16_LateError ==
    C16_Case =>
        /\ lastExit[1].status = "error"
        /\ lastExit[1].error = "cannot perform distributed planning on this query"
        /\ lastExit[1].frame.pops = 1
        /\ lastExit[1].exitDepth = lastExit[1].frame.entryDepth

C16_Witness ==
    /\ C16_Case
    /\ lastExit[1].status = "error"
    /\ lastExit[1].frame.plan = <<>>

\* the restriction context pushed for the call of a frame
ContextOf(contextList, frame) ==
    contextList[Len(contextList) - frame.entryDepth]

\* C19: when the host planner is about to run in distributed_planner the
\* list is not empty and its first context is fresh (no relation, no join,
\* allReferenceTables true); a run of the host planner, the one on the copy
\* made for a re-planning pass included, leaves the first context with the
\* restrictions of the tree it has planned and of nothing else, and every
\* other context as it was; whatever a nested call does, the context of
\* every call that encloses it stays as it is
C19_ContextOfInvocation ==
    /\ [](\A i \in 1..Len(frames) :
             frames[i].pc = "standard_planner" =>
                 /\ i = Len(frames)
                 /\ plannerRestrictionContextList # <<>>
                 /\ CurrentPlannerRestrictionContext(plannerRestrictionContextList)
                       = [relationRestrictionList |-> <<>>,
                          joinRestrictionList |-> <<>>,
                          hasDistributedRelation |-> FALSE,
                          hasLocalRelation |-> FALSE,
                          allReferenceTables |-> TRUE])
    /\ [][(/\ frames # <<>>
           /\ Top(frames).pc \in {"standard_planner", "replan"}
           /\ Len(frames') = Len(frames)
           /\ Top(frames').pc # "catch") =>
              LET after == Top(frames')
                  planned == RelationsPlanned(after.parse, after.root)
                  current == CurrentPlannerRestrictionContext(
                                 plannerRestrictionContextList')
              IN  /\ Len(plannerRestrictionContextList')
                        = Len(plannerRestrictionContextList)
                  /\ Tail(plannerRestrictionContextList')
                        = Tail(plannerRestrictionContextList)
                  /\ [i \in 1..Len(current.relationRestrictionList) |->
                         current.relationRestrictionList[i].rte] = planned
                  /\ \A i \in 1..Len(current.joinRestrictionList) :
                        current.joinRestrictionList[i].plannerInfo
                            \in Range(PreOrder(after.parse, after.root))]_vars
    /\ [][\A i \in 1..Len(frames) :
              (i <= Len(frames') /\ (i < Len(frames) \/ i < Len(frames'))) =>
                  ContextOf(plannerRestrictionContextList', frames[i])
                      = ContextOf(plannerRestrictionContextList, frames[i])]_vars

\* the host planner has run for a sub-plan: two contexts on the list, the
\* first one with the restrictions of the sub-plan, the second one, of the
\* enclosing call, with those of the statement, a join among them
C19_Witness ==
    /\ Len(frames) = 2
    /\ Len(plannerRestrictionContextList) = 2
    /\ Top(frames).pc = "create_plan"
    /\ plannerRestrictionContextList[1].relationRestrictionList # <<>>
    /\ plannerRestrictionContextList[2].joinRestrictionList # <<>>
    /\ plannerRestrictionContextList[2].relationRestrictionList
          # plannerRestrictionContextList[1].relationRestrictionList

\* C19: the host planner has re-planned the rewritten tree of a statement
C19_WitnessReplanned ==
    /\ Len(frames) = 1
    /\ Top(frames).pc = "select_plan"
    /\ Len(Top(frames).passes) = 1
    /\ plannerRestrictionContextList[1].joinRestrictionList # <<>>

\* the plan ids drawn by the calls in progress and by the calls that have
\* made the sub-plans logged
PlanIdsOfFrames == {frames[i].planId : i \in 1..Len(frames)} \ {0}

PlanIdsOfSubPlans == {subPlanLog[i].ownPlanId : i \in 1..Len(subPlanLog)} \ {0}

\* C20: NextPlanId never decreases and is larger than every plan id drawn;
\* a call that does distributed planning draws the value of the counter,
\* which no call in progress and no sub-plan has; of two calls in progress
\* the inner one has the larger id, the calls that made the logged
\* sub-plans drew increasing ids, and the id drawn for a sub-plan is larger
\* than the id of the plan that owns it
C20_PlanIdsIncrease ==
    /\ [][NextPlanId' >= NextPlanId]_vars
    /\ [][\A i \in 1..Len(frames) :
              (/\ i <= Len(frames')
               /\ frames[i].planId = 0
               /\ frames'[i].planId # 0) =>
                  /\ frames'[i].planId = NextPlanId
                  /\ NextPlanId' > NextPlanId
                  /\ frames'[i].planId \notin PlanIdsOfFrames \cup PlanIdsOfSubPlans
                  /\ \A id \in PlanIdsOfFrames \cup PlanIdsOfSubPlans :
                        frames'[i].planId > id]_vars
    /\ [](/\ \A id \in PlanIdsOfFrames \cup PlanIdsOfSubPlans : id < NextPlanId
          /\ \A i, j \in 1..Len(frames) :
                (i < j /\ frames[i].planId # 0 /\ frames[j].planId # 0) =>
                    frames[i].planId < frames[j].planId
          /\ \A i, j \in 1..Len(subPlanLog) :
                (i < j /\ subPlanLog[i].ownPlanId # 0
                       /\ subPlanLog[j].ownPlanId # 0) =>
                    subPlanLog[i].ownPlanId < subPlanLog[j].ownPlanId
          /\ \A i \in 1..Len(subPlanLog) :
                subPlanLog[i].ownPlanId # 0 =>
                    subPlanLog[i].ownPlanId > subPlanLog[i].planId)

\* two sub-plans of one plan, each planned by a distributed planning of its
\* own: three plan ids
C20_Witness ==
    /\ Len(subPlanLog) >= 2
    /\ subPlanLog[1].planId = subPlanLog[2].planId
    /\ subPlanLog[1].ownPlanId = subPlanLog[1].planId + 1
    /\ subPlanLog[2].ownPlanId = subPlanLog[1].planId + 2

\* the identities carried by the base-relation entries of a tree, in the
\* order the range-table walker finds them
IdentitiesOfTree(tree, root) ==
    LET relations == RelationsPlanned(tree, root)
    IN  [i \in 1..Len(relations) |-> GetRTEIdentity(relations[i])]

\* the identities carried by the relation restrictions of a context, in
\* the order the hook has recorded them
IdentitiesOfContext(restrictionContext) ==
    [i \in 1..Len(restrictionContext.relationRestrictionList) |->
        GetRTEIdentity(restrictionContext.relationRestrictionList[i].rte)]

\* a call whose orchestrator is running its pass number `pass`
InPass(frame, pass) ==
    /\ frame.pc \in {"pass", "await"}
    /\ Len(frame.passes) = pass

\* the tree and the context of the running pass of a call agree on the
\* identity of every base relation
PassIdentitiesAgree(frame) ==
    IdentitiesOfTree(Top(frame.passes).start, frame.root) =
        IdentitiesOfContext(ContextOf(plannerRestrictionContextList, frame))

\* C21: whenever a pass of the orchestrator runs on the original tree with
\* a restriction context, the first pass and every pass after a rewrite,
\* each base-relation entry of the tree the pass started from carries the
\* identity of the relation restriction recorded for its copy.
C21_IdentitiesMatchContext ==
    \A d \in 1..Len(frames) :
        frames[d].pc \in {"pass", "await"} => PassIdentitiesAgree(frames[d])

\* the part of C21 that the code keeps: the first pass of every call
C21_FirstPassIdentitiesMatch ==
    \A d \in 1..Len(frames) :
        InPass(frames[d], 1) => PassIdentitiesAgree(frames[d])

\* a second pass whose tree still has a base relation
C21_SecondPassReached ==
    \E d \in 1..Len(frames) :
        /\ InPass(frames[d], 2)
        /\ IdentitiesOfTree(Top(frames[d].passes).start, frames[d].root) # <<>>

\* what identifies the sub-plans of a list, in the order of the list
SubPlanKeys(subPlanList) ==
    [i \in 1..Len(subPlanList) |->
        <<subPlanList[i].node, subPlanList[i].planId, subPlanList[i].subPlanId>>]

\* the sub-plans the nested planner calls have returned for one pass of
\* the top-level call, in the order of their production
SubPlanKeysOfPass(pass) ==
    LET produced == SelectSeq(subPlanLog, LAMBDA entry :
                        entry.pass = pass /\ entry.planId = lastExit[1].frame.planId)
    IN  [i \in 1..Len(produced) |->
            <<produced[i].node, produced[i].planId, produced[i].subPlanId>>]

\* the descriptor a top-level call has returned carries the plan id of the
\* call and the sub-plans of the given passes, and no subquery has been
\* planned twice
ReturnedSubPlanList(passes) ==
    (TopLevelExit /\ lastExit[1].status = "returned"
        /\ lastExit[1].frame.plan # <<>>) =>
        LET frame == lastExit[1].frame
            plan == frame.plan[1]
        IN  /\ \A p \in passes \cap 1..Len(frame.passes) :
                  frame.passes[p].subPlanList # <<>> =>
                      /\ plan.planId = frame.planId
                      /\ SubPlanKeys(plan.subPlanList)
                            = SubPlanKeys(frame.passes[p].subPlanList)
                      /\ SubPlanKeys(plan.subPlanList) = SubPlanKeysOfPass(p)
            /\ \A i, j \in 1..Len(subPlanLog) :
                  subPlanLog[i].node = subPlanLog[j].node => i = j

\* C23: when a pass has produced sub-plans and planning has recursed on the
\* rewritten tree, the descriptor finally returned carries the plan id of
\* the top-level request and a sub-plan list equal to the sub-plans of that
\* pass, in production order, and none of them is planned a second time.
C23_SubPlanListOfPass == ReturnedSubPlanList(1..3)

\* the part of C23 the code keeps: the sub-plans of the first pass
C23_SubPlanListOfFirstPass == ReturnedSubPlanList({1})

\* a statement has been planned in three passes, the first two of them
\* with a sub-plan each
C23_ThreePasses ==
    /\ TopLevelExit
    /\ lastExit[1].status = "returned"
    /\ Len(lastExit[1].frame.passes) = 3
    /\ lastExit[1].frame.passes[2].subPlanList # <<>>

(***************************************************************************)
(* SpecPass: the orchestrator on one query tree, outside the planner: the  *)
(* CTE step alone (PlanPullPushCTEs) or one whole pass                     *)
(* (PlanPullPushSubqueries), the host planner calls for the sub-plans      *)
(* taken as done.                                                          *)
(*                                                                         *)
(* The statements with CTEs: node 1 is the statement, nodes 2 and 3 the    *)
(* bodies of its CTEs c1 and c2, node 4 a subquery of its FROM list and    *)
(* node 5 the body of the CTE of that subquery.  The trees are as the      *)
(* planner hands them over, with the RTE identities assigned.              *)
(***************************************************************************)
CteNames == <<"c1", "c2">>

\* the references of the statement to its own CTEs, by number of the CTE
RootReferences(n) ==
    {refs \in {<<>>, <<1>>, <<1, 1>>, <<2>>, <<2, 1>>} :
        \A i \in 1..Len(refs) : refs[i] <= n}

\* what the subquery in FROM is: absent; a reader of c1 of the statement; a
\* query whose own CTE is called c1 as well; a query with a CTE d that reads
\* both d and c1 of the statement, the body of d reading c1 too
NestedKinds(n) ==
    {"none", "own"} \cup (IF n >= 1 THEN {"outer", "own_and_outer"} ELSE {})

CteTree(n, refs, nested, secondReadsFirst, correlated, flag) ==
    LET rootTable ==
            [i \in 1..Len(refs) |-> CteRTE(CteNames[refs[i]], 0)]
                \o <<RelationRTE("dist_a")>>
                \o (IF nested = "none" THEN <<>> ELSE <<SubqueryRTE(4)>>)
        root == [Query("CMD_SELECT", rootTable, <<>>) EXCEPT
                    !.cteList = [i \in 1..n |->
                                    [ctename |-> CteNames[i], ctequery |-> i + 1]],
                    !.hasRecursive = (flag = "recursive"),
                    !.hasModifyingCTE = (flag = "modifying")]
        first == [Query("CMD_SELECT", <<RelationRTE("dist_a")>>, <<>>) EXCEPT
                    !.varlevelsup = IF correlated = 1 THEN 1 ELSE 0]
        second == [IF secondReadsFirst
                   THEN Query("CMD_SELECT",
                              <<CteRTE("c1", 1), RelationRTE("dist_b")>>, <<>>)
                   ELSE Query("CMD_SELECT", <<RelationRTE("dist_b")>>, <<>>)
                      EXCEPT !.varlevelsup = IF correlated = 2 THEN 1 ELSE 0]
        fourth ==
            CASE nested = "outer" ->
                    Query("CMD_SELECT", <<CteRTE("c1", 1)>>, <<>>)
              [] nested = "own" ->
                    [Query("CMD_SELECT", <<CteRTE("c1", 0)>>, <<>>) EXCEPT
                        !.cteList = <<[ctename |-> "c1", ctequery |-> 5]>>]
              [] nested = "own_and_outer" ->
                    [Query("CMD_SELECT", <<CteRTE("d", 0), CteRTE("c1", 1)>>, <<>>)
                        EXCEPT !.cteList = <<[ctename |-> "d", ctequery |-> 5]>>]
              [] OTHER -> EmptyQuery
        fifth ==
            CASE nested = "own" ->
                    Query("CMD_SELECT", <<RelationRTE("dist_b")>>, <<>>)
              [] nested = "own_and_outer" ->
                    Query("CMD_SELECT", <<CteRTE("c1", 2), RelationRTE("dist_b")>>,
                          <<>>)
              [] OTHER -> EmptyQuery
    IN  <<root,
          IF n >= 1 THEN first ELSE EmptyQuery,
          IF n >= 2 THEN second ELSE EmptyQuery,
          fourth, fifth>>

CteTrees ==
    UNION {{AssignRTEIdentities(
                CteTree(n, refs, nested, secondReadsFirst, correlated, flag), 1) :
                refs \in RootReferences(n), nested \in NestedKinds(n),
                secondReadsFirst \in BOOLEAN, correlated \in 0..2,
                flag \in {"", "recursive", "modifying"}} :
           n \in 0..Len(CteNames)}

\* The statements with nested queries: node 2 is the body of the CTE c1 of
\* the statement, node 3 a subquery of its FROM list with the subquery node 4
\* in its own FROM list, node 5 a second subquery, which is the right side of
\* a LEFT JOIN with a reference table (join) or, with node 3, a branch of the
\* top-level UNION (union).
PassVerdicts == {<<DefaultVerdict>>, <<Materialize>>, <<NonColocated>>}

PassTree(kind, withCte, rootVerdicts, thirdVerdicts, fourthVerdicts, fifthVerdicts) ==
    LET cteList == IF withCte THEN <<[ctename |-> "c1", ctequery |-> 2]>> ELSE <<>>
        joinRoot ==
            [Select(<<CteRTE("c1", 0), SubqueryRTE(3), RelationRTE("ref_r"),
                      SubqueryRTE(5)>>, <<>>, rootVerdicts)
                EXCEPT !.cteList = cteList,
                       !.rtable[1] = IF withCte THEN @ ELSE RelationRTE("dist_a"),
                       !.fromlist = <<RangeTblRef(1), RangeTblRef(2),
                                      JoinExpr("JOIN_LEFT", RangeTblRef(3),
                                               RangeTblRef(4))>>]
        unionRoot ==
            [Select(<<SubqueryRTE(3), SubqueryRTE(5)>>, <<>>, rootVerdicts)
                EXCEPT !.cteList = cteList,
                       !.setOperations =
                           SetOperationStmt("SETOP_UNION", RangeTblRef(1),
                                            RangeTblRef(2))]
    IN  <<IF kind = "join" THEN joinRoot ELSE unionRoot,
          IF withCte THEN Select(<<RelationRTE("dist_a")>>, <<>>, <<DefaultVerdict>>)
          ELSE EmptyQuery,
          Select(<<RelationRTE("dist_b"), SubqueryRTE(4)>>, <<>>, thirdVerdicts),
          Select(<<RelationRTE("dist_a")>>, <<>>, fourthVerdicts),
          Select(<<RelationRTE("dist_b")>>, <<>>, fifthVerdicts)>>

PassTrees ==
    {AssignRTEIdentities(
         PassTree(kind, withCte, rootVerdicts, thirdVerdicts, fourthVerdicts,
                  fifthVerdicts), 1) :
        kind \in {"join", "union"}, withCte \in BOOLEAN,
        rootVerdicts \in {<<DefaultVerdict>>, <<NonColocated>>,
                          <<[NonColocated EXCEPT !.leastColocated = "third"]>>,
                          <<[NonColocated EXCEPT !.leastColocated = "max"]>>},
        thirdVerdicts \in PassVerdicts, fourthVerdicts \in PassVerdicts,
        fifthVerdicts \in PassVerdicts}

\* The statements with set operations: the query with the set-operation
\* tree is the statement itself (nested FALSE) or the only subquery of its
\* FROM list (nested TRUE, node 2); its branches are the subqueries in nodes
\* 3, 4 and 5, each over a distributed table, over a reference table, or
\* already the reader of a result; the last one may also be over a
\* reference table and a subquery (node 6) over a distributed table (deep).
BranchKinds == {"dist", "ref", "reader"}

BranchQuery(kind, verdicts) ==
    CASE kind = "dist" -> Select(<<RelationRTE("dist_a")>>, <<>>, verdicts)
      [] kind = "ref" -> Select(<<RelationRTE("ref_r")>>, <<>>, <<DefaultVerdict>>)
      [] kind = "deep" -> Select(<<RelationRTE("ref_r"), SubqueryRTE(6)>>, <<>>,
                                 <<DefaultVerdict>>)
      [] OTHER -> BuildSubPlanResultQuery(
                      Select(<<RelationRTE("dist_b")>>, <<>>, <<DefaultVerdict>>), 9, 0)

\* the set-operation trees over two or three branches
SetOperationTrees ==
    {SetOperationStmt(op, RangeTblRef(1), RangeTblRef(2)) :
        op \in {"SETOP_UNION", "SETOP_INTERSECT", "SETOP_EXCEPT"}}
    \cup {SetOperationStmt(op, SetOperationStmt(inner, RangeTblRef(1), RangeTblRef(2)),
                           RangeTblRef(3)) :
            op \in {"SETOP_UNION", "SETOP_INTERSECT"},
            inner \in {"SETOP_UNION", "SETOP_EXCEPT"}}
    \cup {SetOperationStmt(op, RangeTblRef(1),
                           SetOperationStmt(inner, RangeTblRef(2), RangeTblRef(3))) :
            op \in {"SETOP_UNION", "SETOP_INTERSECT"},
            inner \in {"SETOP_UNION", "SETOP_EXCEPT"}}

SetOperationVerdicts ==
    {<<[DefaultVerdict EXCEPT !.router = "reject",
                              !.unsupportedUnion = unsupported,
                              !.safeUnion = safe]>> :
        unsupported \in BOOLEAN, safe \in BOOLEAN}

SetOpTree(nested, setOperations, kinds, verdicts, firstVerdicts) ==
    LET branches == [i \in 1..3 |-> SubqueryRTE(2 + i)]
        setOpQuery == [Select(branches, <<>>, verdicts)
                          EXCEPT !.setOperations = setOperations]
    IN  <<IF nested THEN Select(<<SubqueryRTE(2)>>, <<>>, <<Reject>>)
          ELSE setOpQuery,
          IF nested THEN setOpQuery ELSE EmptyQuery,
          BranchQuery(kinds[1], firstVerdicts),
          BranchQuery(kinds[2], <<DefaultVerdict>>),
          BranchQuery(kinds[3], <<DefaultVerdict>>),
          IF kinds[3] = "deep"
          THEN Select(<<RelationRTE("dist_b")>>, <<>>, <<DefaultVerdict>>)
          ELSE EmptyQuery>>

SetOpTrees ==
    {AssignRTEIdentities(
         SetOpTree(nested, setOperations, kinds, verdicts, firstVerdicts), 1) :
        nested \in BOOLEAN, setOperations \in SetOperationTrees,
        kinds \in {k \in [1..3 -> BranchKinds \cup {"deep"}] :
                      k[1] # "deep" /\ k[2] # "deep"},
        verdicts \in SetOperationVerdicts,
        firstVerdicts \in {<<DefaultVerdict>>, <<Materialize>>}}

\* The statements with a flagged nested query: node 2, the subquery of the
\* FROM list, has the CTE c1 (node 3) and hasRecursive or hasModifyingCTE
\* set, or neither
FlaggedTree(flag, secondVerdicts) ==
    <<Select(<<RelationRTE("dist_a"), SubqueryRTE(2)>>, <<>>, <<DefaultVerdict>>),
      [Select(<<CteRTE("c1", 0), RelationRTE("dist_b")>>, <<>>, secondVerdicts)
          EXCEPT !.cteList = <<[ctename |-> "c1", ctequery |-> 3]>>,
                 !.hasRecursive = (flag = "recursive"),
                 !.hasModifyingCTE = (flag = "modifying")],
      Select(<<RelationRTE("dist_a")>>, <<>>, <<DefaultVerdict>>)>>

FlaggedTrees ==
    {AssignRTEIdentities(FlaggedTree(flag, secondVerdicts), 1) :
        flag \in {"", "recursive", "modifying"},
        secondVerdicts \in PassVerdicts}

InitPass ==
    /\ IdleClassify
    /\ IdleResult
    /\ IdleIdent
    /\ IdleJoin
    /\ IdleFinalize
    /\ IdlePlan
    /\ oQuery \in CteTrees \cup PassTrees \cup SetOpTrees \cup FlaggedTrees
    /\ oConfig \in {DefaultConfig,
                    [DefaultConfig EXCEPT !.EnableRouterExecution = FALSE]}
    /\ oStep = "none"
    /\ oResult = <<>>

\* PlanPullPushCTEs(query, &pullPushContext) on a fresh context
PlanCtes ==
    /\ oStep = "none"
    /\ oStep' = "ctes"
    /\ oResult' = <<PlanPullPushCTEs(
                        PlanPullPushContext(1, oQuery, 1, oConfig, 0), 1)>>
    /\ UNCHANGED <<oQuery, oConfig, notPass>>

\* PlanPullPushSubqueries(query, &pullPushContext) on a fresh context
PlanPass ==
    /\ oStep = "none"
    /\ oStep' = "pass"
    /\ oResult' = <<PlanPullPushSubqueries(
                        PlanPullPushContext(1, oQuery, 1, oConfig, 0), 1)>>
    /\ UNCHANGED <<oQuery, oConfig, notPass>>

NextPass == PlanCtes \/ PlanPass

SpecPass == InitPass /\ [][NextPass]_vars


(***************************************************************************)
(* Properties of SpecPass.                                                 *)
(***************************************************************************)
\* the Query nodes d query levels below the statement
RECURSIVE QueriesAtDepth(_, _)
QueriesAtDepth(tree, d) ==
    IF d = 0 THEN {1}
    ELSE UNION {Range(QueryTreeChildren(tree[m])) : m \in QueriesAtDepth(tree, d - 1)}

\* the range-table entries that point at the CTE list of the statement: the
\* RTE_CTE entries whose ctelevelsup is the depth of their query
PlacesPointingAtCteList(tree) ==
    UNION {UNION {{<<m, i>> : i \in {j \in 1..Len(tree[m].rtable) :
                                       /\ tree[m].rtable[j].rtekind = "RTE_CTE"
                                       /\ tree[m].rtable[j].ctelevelsup = d}} :
                  m \in QueriesAtDepth(tree, d)} :
           d \in 0..Len(tree)}

AllPlaces(tree) ==
    UNION {{<<m, i>> : i \in 1..Len(tree[m].rtable)} : m \in 1..Len(tree)}

CteIndex(query, name) ==
    CHOOSE i \in 1..Len(query.cteList) : query.cteList[i].ctename = name

C12_Case ==
    /\ oStep = "ctes"
    /\ oResult[1].error = ""
    /\ Running(oResult[1].context)

\* C12: after the CTE step has succeeded on a query with n CTEs, n sub-plans
\* have been appended, the i-th for the i-th CTE of the list, referenced or
\* not; the CTE list of the query is empty; every range-table entry that
\* pointed at this CTE list, at any depth, is a subquery entry holding the
\* result reader of its CTE, and every other entry is as it was
C12_CteStep ==
    C12_Case =>
        LET context == oResult[1].context
            query == oQuery[1]
            n == Len(query.cteList)
        IN  /\ Len(context.subPlanList) = n
            /\ \A i \in 1..n :
                  /\ context.subPlanList[i].node = query.cteList[i].ctequery
                  /\ context.subPlanList[i].subPlanId = i - 1
                  /\ context.subPlanList[i].site = "cte"
            /\ context.tree[1].cteList = <<>>
            /\ \A place \in PlacesPointingAtCteList(oQuery) :
                  LET before == EntryAt(oQuery, place)
                      after == EntryAt(context.tree, place)
                  IN  /\ after.rtekind = "RTE_SUBQUERY"
                      /\ IsResultReader(context.tree[after.subquery])
                      /\ context.tree[after.subquery].rtable[1].functions[1]
                            .resultSubPlanId = CteIndex(query, before.ctename) - 1
                      /\ context.tree[after.subquery].rtable[1].functions[1]
                            .resultPlanId = context.planId
            /\ \A place \in AllPlaces(oQuery) \ PlacesPointingAtCteList(oQuery) :
                  EntryAt(context.tree, place) = EntryAt(oQuery, place)

\* two CTEs, the second never referenced, the first referenced by the
\* statement, by its subquery and by the CTE body of that subquery
C12_Witness ==
    /\ C12_Case
    /\ Len(oQuery[1].cteList) = 2
    /\ Len(oResult[1].context.subPlanList) = 2
    /\ PlacesPointingAtCteList(oQuery) = {<<1, 1>>, <<4, 2>>, <<5, 1>>}
    /\ oResult[1].context.tree[4].rtable[1].rtekind = "RTE_CTE"

\* C12 (n = 1): one sub-plan and a CTE list of length zero
C12_WitnessOne ==
    /\ C12_Case
    /\ Len(oQuery[1].cteList) = 1
    /\ Len(oResult[1].context.subPlanList) = 1
    /\ Len(oResult[1].context.tree[1].cteList) = 0


\* the query whose range table, CTE list or expressions hold the Query node
ParentOf(tree, node) ==
    CHOOSE p \in 1..Len(tree) : node \in Range(QueryTreeChildren(tree[p]))

RECURSIVE AncestorsOf(_, _)
AncestorsOf(tree, node) ==
    IF node = 1 THEN {}
    ELSE {ParentOf(tree, node)} \cup AncestorsOf(tree, ParentOf(tree, node))

\* the child of `ancestor` on the way down to `node`
ChildTowards(tree, ancestor, node) ==
    CHOOSE c \in (AncestorsOf(tree, node) \cup {node}) \ {1} :
        ParentOf(tree, c) = ancestor

\* the innermost query that contains both nodes
CommonAncestor(tree, a, b) ==
    CHOOSE q \in AncestorsOf(tree, a) \cap AncestorsOf(tree, b) :
        (AncestorsOf(tree, a) \cap AncestorsOf(tree, b)) \ {q}
            \subseteq AncestorsOf(tree, q)

IndexIn(seq, x) == CHOOSE i \in 1..Len(seq) : seq[i] = x

\* the leaves of a set-operation tree, left to right
RECURSIVE SetOperationLeaves(_)
SetOperationLeaves(setOpNode) ==
    CASE setOpNode.tag = "SetOperationStmt" ->
            SetOperationLeaves(setOpNode.larg) \o SetOperationLeaves(setOpNode.rarg)
      [] setOpNode.tag = "RangeTblRef" -> <<setOpNode.rtindex>>
      [] OTHER -> <<>>

\* the step of its query that a sub-plan comes from: 1 the CTE step, 2 the
\* walk over the nested queries, 3 the set-operation or non-colocated-join
\* step, 4 the outer-join step
StepOf(site) ==
    CASE site = "cte" -> 1
      [] site \in {"subquery", "non_colocated_subquery"} -> 2
      [] site \in {"set_operation", "non_colocated_join"} -> 3
      [] OTHER -> 4

\* whether sub-plan x may come before sub-plan y of the same pass; of a
\* query and a query inside it, containerFirst says which one comes first
MayPrecede(tree, x, y, containerFirst) ==
    IF x.node \in AncestorsOf(tree, y.node) THEN containerFirst
    ELSE IF y.node \in AncestorsOf(tree, x.node) THEN ~containerFirst
    ELSE LET q == CommonAncestor(tree, x.node, y.node)
             cx == ChildTowards(tree, q, x.node)
             cy == ChildTowards(tree, q, y.node)
             sx == IF cx = x.node THEN StepOf(x.site) ELSE 2
             sy == IF cy = y.node THEN StepOf(y.site) ELSE 2
             walked == QueryTreeChildren([tree[q] EXCEPT !.cteList = <<>>])
             leaves == SetOperationLeaves(tree[q].setOperations)
             Leaf(c) == IndexIn(leaves,
                                IndexIn([i \in 1..Len(tree[q].rtable) |->
                                            tree[q].rtable[i].subquery], c))
         IN  \/ sx < sy
             \/ /\ sx = sy
                /\ CASE sx = 1 -> IndexIn(CteQueries(tree[q]), cx)
                                      < IndexIn(CteQueries(tree[q]), cy)
                     [] sx = 2 -> IndexIn(walked, cx) < IndexIn(walked, cy)
                     [] sx = 3 /\ x.site = "set_operation" -> Leaf(cx) < Leaf(cy)
                     [] OTHER -> TRUE

SubPlansInOrder(containerFirst) ==
    (oStep = "pass" /\ oResult[1].error = "" /\ Running(oResult[1].context)) =>
        LET subPlanList == oResult[1].context.subPlanList
        IN  /\ \A i \in 1..Len(subPlanList) : subPlanList[i].subPlanId = i - 1
            /\ \A i, j \in 1..Len(subPlanList) :
                  i < j => MayPrecede(oQuery, subPlanList[i], subPlanList[j],
                                      containerFirst)

\* C14 as stated: within one pass the sub-plans of a query are numbered in
\* the order CTEs in list order, nested queries in walk order, a containing
\* query before the queries inside it, set-operation branches left to
\* right, outer-join sides
C14_ContainerFirst == SubPlansInOrder(TRUE)

\* C14: within one pass the sub-plans of a query are numbered from 0 in the
\* order CTEs in list order, nested queries in walk order, every query
\* inside a nested query before that query itself, set-operation branches
\* left to right or the subqueries of non-colocated joins, outer-join sides
C14_ContainedFirst == SubPlansInOrder(FALSE)

\* a pass that has planned the CTE, the subquery inside the first subquery,
\* the first subquery and then the side of the outer join
C14_Witness ==
    /\ oStep = "pass"
    /\ Running(oResult[1].context)
    /\ [i \in 1..Len(oResult[1].context.subPlanList) |->
           <<oResult[1].context.subPlanList[i].node,
             oResult[1].context.subPlanList[i].site>>]
          = <<(<<2, "cte">>), (<<4, "subquery">>), (<<3, "subquery">>),
              (<<5, "outer_join">>)>>

(***************************************************************************)
(* SpecFinalize: FinalizePlan on one local plan and one plan descriptor.   *)
(***************************************************************************)
\* range tables of the local plan
LocalRangeTables ==
    SeqsUpTo({RelationRTE("dist_a"), RelationRTE("local_l")}, MaxRels)

\* target lists of the local plan: entries numbered from 1, junk or not
LocalTargetLists ==
    {[i \in 1..Len(junk) |->
         [TargetEntry(TargetExpr(23, -1, 0), <<"user_id", "value_1">>[i], junk[i])
             EXCEPT !.resno = i]] : junk \in SeqsUpTo(BOOLEAN, 2)}

LocalPlans ==
    {[rtable |-> rtable,
      relationOids |-> [i \in 1..Len(rtable) |-> rtable[i].relid],
      targetlist |-> targetlist,
      queryId |-> 7, utilityStmt |-> utilityStmt,
      commandType |-> commandType, hasReturning |-> FALSE] :
        rtable \in LocalRangeTables, targetlist \in LocalTargetLists,
        utilityStmt \in {<<>>, <<"DeclareCursorStmt">>},
        commandType \in {"CMD_SELECT", "CMD_UPDATE"}}

\* plan descriptors: with or without planning error, with or without a
\* master query, whatever JobExecutorType says about them
Descriptors ==
    {[planId |-> 1, planningError |-> planningError,
      operation |-> "CMD_SELECT", multiTask |-> multiTask,
      masterQuery |-> masterQuery, jobExecutorType |-> jobExecutorType,
      relationIdList |-> <<>>, subPlanList |-> <<>>] :
        planningError \in {"", "cannot plan this query"},
        multiTask \in BOOLEAN,
        masterQuery \in {<<>>, <<"masterQuery">>},
        jobExecutorType \in JobExecutorTypes}

InitFinalize ==
    /\ IdleClassify
    /\ IdleResult
    /\ IdleIdent
    /\ IdleJoin
    /\ IdlePass
    /\ IdlePlan
    /\ fLocalPlan \in LocalPlans
    /\ fDistributedPlan \in Descriptors
    /\ fLogLevel \in {"MULTI_TASK_QUERY_INFO_OFF", "NOTICE"}
    /\ fResult = <<>>

\* the call FinalizePlan(localPlan, distributedPlan)
Finalize ==
    /\ fResult = <<>>
    /\ fResult' = <<FinalizePlan(fLocalPlan, fDistributedPlan, fLogLevel)>>
    /\ UNCHANGED <<fLocalPlan, fDistributedPlan, fLogLevel, notFinalize>>

NextFinalize == Finalize

SpecFinalize == InitFinalize /\ [][NextFinalize]_vars

(***************************************************************************)
(* Properties of SpecFinalize.                                             *)
(***************************************************************************)
\* the executor a custom scan runs with
ExecutorOfMethods(methods) ==
    CASE methods = "RealTimeCustomScanMethods" -> "MULTI_EXECUTOR_REAL_TIME"
      [] methods = "TaskTrackerCustomScanMethods" -> "MULTI_EXECUTOR_TASK_TRACKER"
      [] methods = "RouterCustomScanMethods" -> "MULTI_EXECUTOR_ROUTER"
      [] methods = "CoordinatorInsertSelectCustomScanMethods" ->
            "MULTI_EXECUTOR_COORDINATOR_INSERT_SELECT"
      [] OTHER -> "delayed error"

\* the last n entries of a sequence
LastEntries(seq, n) == SubSeq(seq, Len(seq) - n + 1, Len(seq))

\* C22: FinalizePlan selects the delayed-error executor if and only if the
\* descriptor carries a planning error, and then whatever JobExecutorType
\* would say makes no difference; with no planning error it selects the
\* executor JobExecutorType names; it builds the non-router shape if and
\* only if the descriptor has a master query, otherwise the router shape;
\* in both shapes the range table of the final plan is the plan's own
\* entries followed by the range table of the local plan.
C22_ExecutorAndShape ==
    fResult # <<>> =>
        LET final == fResult[1]
            executor == ExecutorOfMethods(final.finalPlan.customScan.methods)
            own == Len(final.finalPlan.rtable) - Len(fLocalPlan.rtable)
        IN  /\ executor = "delayed error" <=> fDistributedPlan.planningError # ""
            /\ fDistributedPlan.planningError # "" =>
                  \A other \in JobExecutorTypes :
                      FinalizePlan(fLocalPlan,
                                   [fDistributedPlan EXCEPT
                                       !.jobExecutorType = other],
                                   fLogLevel).customScanMethods
                          = final.customScanMethods
            /\ fDistributedPlan.planningError = "" =>
                  /\ executor = fDistributedPlan.jobExecutorType
                  /\ executor \in JobExecutorTypes
            /\ final.finalPlan.shape = "non_router" <=>
                  fDistributedPlan.masterQuery # <<>>
            /\ final.finalPlan.shape = "router" <=>
                  fDistributedPlan.masterQuery = <<>>
            /\ own >= 1
            /\ LastEntries(final.finalPlan.rtable, Len(fLocalPlan.rtable))
                  = fLocalPlan.rtable
            /\ \A i \in 1..own :
                  final.finalPlan.rtable[i] \notin Range(fLocalPlan.rtable)
            /\ final.finalPlan.shape = "router" =>
                  /\ own = 1
                  /\ final.finalPlan.planTree = <<"custom scan">>
                  /\ final.finalPlan.rtable[1].eref.colnames =
                        [i \in 1..Len(final.finalPlan.customScan.targetlist) |->
                            final.finalPlan.customScan.targetlist[i].resname]

\* a plan without planning error and with a master query, finalized for
\* the task-tracker executor above a local plan with two relations
C22_Witness ==
    /\ fResult # <<>>
    /\ fDistributedPlan.planningError = ""
    /\ fDistributedPlan.masterQuery # <<>>
    /\ fDistributedPlan.jobExecutorType = "MULTI_EXECUTOR_TASK_TRACKER"
    /\ Len(fLocalPlan.rtable) = 2
    /\ fResult[1].finalPlan.shape = "non_router"
    /\ fResult[1].customScanMethods = "TaskTrackerCustomScanMethods"

\* C22: a plan with a planning error and no master query, finalized in the
\* router shape with the delayed-error executor
C22_WitnessDelayedError ==
    /\ fResult # <<>>
    /\ fDistributedPlan.planningError # ""
    /\ fDistributedPlan.masterQuery = <<>>
    /\ fDistributedPlan.jobExecutorType = "MULTI_EXECUTOR_ROUTER"
    /\ fLocalPlan.rtable # <<>>
    /\ fResult[1].finalPlan.shape = "router"
    /\ fResult[1].customScanMethods = "DelayedErrorCustomScanMethods"

\* the queries of a tree that have a set-operation tree
SetOperationQueries(tree) ==
    {q \in Range(PreOrder(tree, 1)) : tree[q].setOperations # NoNode}

\* the level the orchestrator reaches a query at: 0 for the query the pass
\* is started on, one more for every query around it
LevelOf(tree, q) == Cardinality(AncestorsOf(tree, q))

\* the subqueries at the leaves of the set-operation tree of a query, left
\* to right
BranchesOf(tree, q) ==
    LET leaves == SetOperationLeaves(tree[q].setOperations)
    IN  SelectSeq([i \in 1..Len(leaves) |-> tree[q].rtable[leaves[i]]],
                  LAMBDA rte : rte.rtekind = "RTE_SUBQUERY")

\* the nodes of these subqueries
BranchesOfNodes(tree, q) ==
    [i \in 1..Len(BranchesOf(tree, q)) |-> BranchesOf(tree, q)[i].subquery]

\* the nodes a pass has planned at one of the given sites, in the order of
\* their sub-plans
PlannedAt(context, sites) ==
    LET chosen == SelectSeq(context.subPlanList, LAMBDA subPlan : subPlan.site \in sites)
    IN  [i \in 1..Len(chosen) |-> chosen[i].node]

\* the branches of a query that still hold a distributed relation when the
\* set-operation step is reached: those that held one at the start and
\* that the walk over the nested queries has not planned
DistributedBranches(context, tree, q) ==
    LET branches == BranchesOf(tree, q)
        walked == Range(PlannedAt(context, {"subquery", "non_colocated_subquery"}))
        nodes == [i \in 1..Len(branches) |-> branches[i].subquery]
    IN  SelectSeq(nodes, LAMBDA b :
            QueryContainsDistributedTableRTE(tree, b) /\ b \notin walked)

\* what a pass that has ended without error has done with the branches of
\* the set operations: when the step fires, the branches that hold a
\* distributed relation are planned by it; when not, none is
SetOperationStep(firesAtTopLevel) ==
    (oStep = "pass" /\ oResult[1].error = "" /\ Running(oResult[1].context)) =>
        \A q \in SetOperationQueries(oQuery) :
            LET verdict == VerdictOf(oQuery[q], 1)
                atLevel == IF firesAtTopLevel THEN LevelOf(oQuery, q) = 0
                           ELSE LevelOf(oQuery, q) > 0
                fires == \/ oQuery[q].setOperations.op # "SETOP_UNION"
                         \/ atLevel
                         \/ verdict.unsupportedUnion
                         \/ ~verdict.safeUnion
                planned == Range(PlannedAt(oResult[1].context, {"set_operation"}))
                branches == Range(DistributedBranches(oResult[1].context, oQuery, q))
            IN  IF fires THEN branches \subseteq planned
                ELSE branches \cap planned = {}

\* C26 (as stated): the branches of a set operation are materialized if the
\* operator is not a plain UNION, or the set operation is a nested one, or
\* the union is unsupported or not safe to push down; a top-level plain
\* UNION that is supported and safe has no branch materialized by the step.
C26_NestedSetOperation == SetOperationStep(FALSE)

\* C26 (amended): the branches of a set operation are materialized if the
\* operator is not a plain UNION, or the set operation is that of the query
\* the pass was started on (level 0), or the union is unsupported or not
\* safe to push down; a plain UNION of a nested query that is supported
\* and safe has no branch materialized by the set-operation step.
C26_TopLevelSetOperation == SetOperationStep(TRUE)

\* a pass on a statement that is a plain UNION, supported and safe to push
\* down, has materialized two branches in the set-operation step
C26_Witness ==
    /\ oStep = "pass"
    /\ Running(oResult[1].context)
    /\ oQuery[1].setOperations # NoNode
    /\ oQuery[1].setOperations.op = "SETOP_UNION"
    /\ ~VerdictOf(oQuery[1], 1).unsupportedUnion
    /\ VerdictOf(oQuery[1], 1).safeUnion
    /\ Len(PlannedAt(oResult[1].context, {"set_operation"})) >= 2

\* C26: a pass on a statement whose subquery is a plain UNION, supported
\* and safe to push down, with branches over distributed tables, has
\* materialized no branch in the set-operation step
C26_WitnessNested ==
    /\ oStep = "pass"
    /\ Running(oResult[1].context)
    /\ oQuery[1].setOperations = NoNode
    /\ 2 \in SetOperationQueries(oQuery)
    /\ oQuery[2].setOperations.op = "SETOP_UNION"
    /\ ~VerdictOf(oQuery[2], 1).unsupportedUnion
    /\ VerdictOf(oQuery[2], 1).safeUnion
    /\ Len(DistributedBranches(oResult[1].context, oQuery, 2)) >= 2
    /\ PlannedAt(oResult[1].context, {"set_operation"}) = <<>>

\* whether a query has a distributed table that is not a reference table
\* in its range table or in that of a subquery of its range table
RECURSIVE HoldsDistributedTable(_, _)
HoldsDistributedTable(tree, node) ==
    \E i \in 1..Len(tree[node].rtable) :
        \/ /\ tree[node].rtable[i].rtekind = "RTE_RELATION"
           /\ tree[node].rtable[i].relid \in {"dist_a", "dist_b", "append_c"}
        \/ /\ tree[node].rtable[i].rtekind = "RTE_SUBQUERY"
           /\ HoldsDistributedTable(tree, tree[node].rtable[i].subquery)

\* the positions of the sub-plans of a pass that come from the given site
SubPlanIdsAt(context, site) ==
    LET chosen == SelectSeq(context.subPlanList, LAMBDA subPlan : subPlan.site = site)
    IN  [i \in 1..Len(chosen) |-> chosen[i].subPlanId]

\* C27: when the set-operation step materializes branches it goes through
\* the set-operation tree depth-first, the left operand before the right
\* one, and materializes exactly the leaves that are subqueries holding a
\* distributed table that is not a reference table, one sub-plan per leaf,
\* numbered in that order; a leaf without such a table, a leaf that is
\* already the reader of a result included, is left as it is.
C27_DistributedLeavesInOrder ==
    (oStep = "pass" /\ oResult[1].error = "" /\ Running(oResult[1].context)) =>
        LET context == oResult[1].context
            planned == PlannedAt(context, {"set_operation"})
            ids == SubPlanIdsAt(context, "set_operation")
        IN  /\ \A i \in 1..Len(planned) : \E q \in SetOperationQueries(oQuery) :
                  planned[i] \in Range(BranchesOfNodes(oQuery, q))
            /\ \A q \in SetOperationQueries(oQuery) :
                  LET branches == BranchesOfNodes(oQuery, q)
                      atStep == [b \in Range(branches) |->
                                    IF b \in Range(PlannedAt(context,
                                           {"subquery", "non_colocated_subquery"}))
                                    THEN BuildSubPlanResultQuery(oQuery[b], 1, 0)
                                    ELSE oQuery[b]]
                      holding == SelectSeq(branches, LAMBDA b :
                                     /\ ~IsResultReader(atStep[b])
                                     /\ HoldsDistributedTable(oQuery, b))
                  IN  /\ planned # <<>> => planned = holding
                      /\ \A i \in 1..Len(ids) : i > 1 => ids[i - 1] < ids[i]
                      /\ \A b \in Range(branches) \ Range(holding) :
                            b \notin Range(PlannedAt(context,
                                     {"subquery", "non_colocated_subquery"}))
                                => context.tree[b] = oQuery[b]
                      /\ \A b \in Range(planned) :
                            IsResultReader(context.tree[b])

\* a pass has materialized the first and the third branch of a set
\* operation over three branches, the third one holding its distributed
\* table in a subquery, and has left the second one, a reader or a query
\* over a reference table, as it was
C27_Witness ==
    /\ oStep = "pass"
    /\ Running(oResult[1].context)
    /\ \E q \in SetOperationQueries(oQuery) :
          /\ Len(BranchesOfNodes(oQuery, q)) = 3
          /\ PlannedAt(oResult[1].context, {"set_operation"}) = <<3, 5>>
          /\ SubPlanIdsAt(oResult[1].context, "set_operation") = <<0, 1>>
          /\ ~HoldsDistributedTable(oQuery, 4)
          /\ 6 \in Range(PreOrder(oQuery, 1))

\* C27: the same with a second branch that is already the reader of a
\* result
C27_WitnessReader ==
    /\ oStep = "pass"
    /\ Running(oResult[1].context)
    /\ \E q \in SetOperationQueries(oQuery) :
          /\ Len(BranchesOfNodes(oQuery, q)) = 3
          /\ PlannedAt(oResult[1].context, {"set_operation"}) = <<3, 5>>
          /\ IsResultReader(oQuery[4])
          /\ oResult[1].context.tree[4] = oQuery[4]

\* the identity the non-colocated-join step of query q picks on a tree
PickedIdentity(context, tree, q) ==
    FindRTEIdentityWithLeastColocatedJoins([context EXCEPT !.tree = tree], q)

\* what a pass that has ended without error has planned in its
\* non-colocated-join steps: a subquery that holds the picked identity;
\* the innermost such subquery below the query of the step, or the first
\* sub-select of that query, in walk order, with the identity anywhere
\* inside it
NonColocatedJoinStep(innermost) ==
    (oStep = "pass" /\ oResult[1].error = "" /\ Running(oResult[1].context)) =>
        \A i \in 1..Len(oResult[1].context.subPlanList) :
            LET context == oResult[1].context
                subPlan == context.subPlanList[i]
                tree == subPlan.treeAtCall
                Holds(n, identity) == identity \in QueryRteIdentities(tree, n)
            IN  subPlan.site = "non_colocated_join" =>
                    IF innermost
                    THEN \E q \in AncestorsOf(tree, subPlan.node) :
                            /\ Holds(subPlan.node, PickedIdentity(context, tree, q))
                            /\ \A c \in Range(QueryTreeChildren(tree[subPlan.node])) :
                                  ~Holds(c, PickedIdentity(context, tree, q))
                    ELSE LET q == ParentOf(tree, subPlan.node)
                             children == QueryTreeChildren(tree[q])
                             picked == PickedIdentity(context, tree, q)
                         IN  /\ Holds(subPlan.node, picked)
                             /\ \A j \in 1..Len(children) :
                                   j < IndexIn(children, subPlan.node)
                                       => ~Holds(children[j], picked)

\* C28 (as stated): each iteration of the non-colocated-join step picks the
\* identity with the fewest colocated joins and materializes the smallest
\* subquery that contains it, the innermost enclosing one, at any depth
\* below the query.
C28_InnermostSubquery == NonColocatedJoinStep(TRUE)

\* C28: each iteration of the non-colocated-join step picks the identity
\* with the fewest colocated joins and materializes the first sub-select of
\* the query itself, in walk order, that contains the identity at any
\* depth: the outermost enclosing subquery below the query, not the
\* innermost one.
C28_OutermostSubquery == NonColocatedJoinStep(FALSE)

\* the picked identity is that of the relation of node 4, two levels below
\* the statement; node 3, which holds node 4, has been planned
C28_Witness ==
    /\ oStep = "pass"
    /\ Running(oResult[1].context)
    /\ \E i \in 1..Len(oResult[1].context.subPlanList) :
          LET subPlan == oResult[1].context.subPlanList[i]
              picked == PickedIdentity(oResult[1].context, subPlan.treeAtCall, 1)
          IN  /\ subPlan.site = "non_colocated_join"
              /\ subPlan.node = 3
              /\ picked \in QueryRteIdentities(subPlan.treeAtCall, 4)
              /\ picked # GetRTEIdentity(subPlan.treeAtCall[3].rtable[1])

\* the picked identity is that of the relation of node 5, directly below
\* the statement; node 5 has been planned
C28_WitnessDirect ==
    /\ oStep = "pass"
    /\ Running(oResult[1].context)
    /\ \E i \in 1..Len(oResult[1].context.subPlanList) :
          LET subPlan == oResult[1].context.subPlanList[i]
          IN  /\ subPlan.site = "non_colocated_join"
              /\ subPlan.node = 5
              /\ PickedIdentity(oResult[1].context, subPlan.treeAtCall, 1)
                    = GetRTEIdentity(subPlan.treeAtCall[5].rtable[1])

(***************************************************************************)
(* SpecLoop: the set-operation / non-colocated-join block of               *)
(* PlanPullPushSubqueries on the statement, the while loop one turn at a   *)
(* time. oStep is "none" before the call, "loop" at the test of the loop   *)
(* condition, "deferred" when the block has left an unsafe UNION subquery  *)
(* for the next call, "set_operation" when the statement has a             *)
(* set-operation tree, "left" when the CTE step or the walk has ended the  *)
(* call, "stopped" after the loop.                                         *)
(***************************************************************************)
\* what ContainsUnionSubquery, SafeToPushdownUnionSubquery,
\* RestrictionEquivalenceForPartitionKeys and
\* FindRTEIdentityWithLeastColocatedJoins answer about the statement
LoopVerdicts ==
    {<<[DefaultVerdict EXCEPT !.unionSubquery = unionSubquery,
                              !.safeUnion = safeUnion,
                              !.equivalent = equivalent,
                              !.leastColocated = leastColocated]>> :
        unionSubquery \in BOOLEAN, safeUnion \in BOOLEAN,
        equivalent \in BOOLEAN, leastColocated \in {"min", "third", "max"}}

LoopTrees ==
    {AssignRTEIdentities(
         PassTree(kind, withCte, rootVerdicts, thirdVerdicts, <<DefaultVerdict>>,
                  <<DefaultVerdict>>), 1) :
        kind \in {"join", "union"}, withCte \in BOOLEAN,
        rootVerdicts \in LoopVerdicts, thirdVerdicts \in PassVerdicts}

InitLoop ==
    /\ IdleClassify
    /\ IdleResult
    /\ IdleIdent
    /\ IdleJoin
    /\ IdleFinalize
    /\ IdlePlan
    /\ oQuery \in LoopTrees
    /\ oConfig \in {DefaultConfig,
                    [DefaultConfig EXCEPT !.EnableRouterExecution = FALSE]}
    /\ oStep = "none"
    /\ oResult = <<>>

\* PlanPullPushSubqueries up to its set-operation / non-colocated-join
\* block: the CTE step and the walk over the nested queries
ContextAtBlock(context) == PlanPullPushSubqueriesUpTo(context, 1, FALSE)

\* where the block goes from the context it is reached with
BlockStep(atBlock) ==
    LET query == atBlock.context.tree[1]
        verdict == VerdictOf(query, atBlock.context.pass)
    IN  IF \/ atBlock.context.config.SubqueryPushdown
           \/ atBlock.error # ""
           \/ ~Running(atBlock.context)
        THEN "left"
        ELSE IF query.setOperations # NoNode THEN "set_operation"
        ELSE IF verdict.unionSubquery /\ ~verdict.safeUnion THEN "deferred"
        ELSE "loop"

\* the call up to the while loop; a set-operation tree is handled at once
EnterBlock ==
    /\ oStep = "none"
    /\ \E atBlock \in {ContextAtBlock(PlanPullPushContext(1, oQuery, 1, oConfig, 0))} :
          /\ oStep' = BlockStep(atBlock)
          /\ oResult' = <<IF BlockStep(atBlock) = "set_operation"
                          THEN [atBlock EXCEPT !.context =
                                   PlanSetOperationsOrJoins(@, 1)]
                          ELSE atBlock>>
    /\ UNCHANGED <<oQuery, oConfig, notPass>>

\* one turn of the while loop
Iterate ==
    /\ oStep = "loop"
    /\ \E iteration \in {NonColocatedJoinIteration(oResult[1].context, 1)} :
          /\ oResult' = <<[oResult[1] EXCEPT !.context = iteration.context]>>
          /\ oStep' = IF iteration.continue THEN "loop" ELSE "stopped"
    /\ UNCHANGED <<oQuery, oConfig, notPass>>

NextLoop == EnterBlock \/ Iterate

\* the planner does not stop in the middle of the loop
SpecLoop == InitLoop /\ [][NextLoop]_vars /\ WF_vars(Iterate)

\* the loop has ended, or the call has not come to it
LoopOver == oStep \in {"left", "set_operation", "deferred", "stopped"}

\* a turn of the loop after which the loop goes on
ContinuingIteration == oStep = "loop" /\ oStep' = "loop"

\* a turn of the loop that ends it
LastIteration == oStep = "loop" /\ oStep' = "stopped"

\* the conditions under which the loop stops
StopCondition(context) ==
    \/ VerdictOf(context.tree[1], context.pass).unionSubquery
    \/ RestrictionEquivalenceForPartitionKeys(context, 1)
    \/ ~ReplaceNonColocatedJoin(context, 1).replaced

\* the sub-plans the non-colocated-join step has made for the subqueries
\* of the statement
LoopSubPlans(context) ==
    SelectSeq(context.subPlanList,
              LAMBDA subPlan : /\ subPlan.site = "non_colocated_join"
                               /\ ParentOf(subPlan.treeAtCall, subPlan.node) = 1)

\* C29: the non-colocated-join loop, once reached, terminates; every turn after which it
\* goes on has started with restrictions that are not equivalent and
\* without UNION subquery, has appended exactly one sub-plan and has taken
\* at least one base-relation identity out of the query; the turn that ends
\* it has found the restrictions equivalent, a UNION subquery, or no
\* subquery to replace, or has raised an error; the loop is not entered
\* when the query holds a UNION subquery that is unsafe to push down
C29_LoopTerminates ==
    /\ (oStep = "loop") ~> LoopOver
    /\ [][(ContinuingIteration =>
               LET context == oResult[1].context
                   after == oResult'[1].context
               IN  /\ ~StopCondition(context)
                   /\ Len(after.subPlanList) = Len(context.subPlanList) + 1
                   /\ QueryRteIdentities(after.tree, 1)
                         \subseteq QueryRteIdentities(context.tree, 1)
                   /\ QueryRteIdentities(after.tree, 1)
                         # QueryRteIdentities(context.tree, 1))
           /\ (LastIteration =>
                  \/ /\ StopCondition(oResult[1].context)
                     /\ oResult'[1].context.subPlanList
                           = oResult[1].context.subPlanList
                  \/ ~Running(oResult'[1].context))]_vars
    /\ [](oStep # "none" =>
             LET verdict == VerdictOf(oQuery[1], 1)
             IN  (verdict.unionSubquery /\ ~verdict.safeUnion) =>
                     /\ oStep # "loop"
                     /\ oStep # "stopped"
                     /\ LoopSubPlans(oResult[1].context) = <<>>)

\* the loop has stopped after two turns that went on: two sub-plans
C29_Witness ==
    /\ oStep = "stopped"
    /\ Running(oResult[1].context)
    /\ Len(LoopSubPlans(oResult[1].context)) = 2

\* an unsafe UNION subquery in a statement whose restrictions are not
\* equivalent: the block has been left without a turn of the loop
C29_WitnessDeferred ==
    /\ oStep = "deferred"
    /\ ~VerdictOf(oQuery[1], 1).equivalent
    /\ Cardinality(FilteredRteIdentities(oResult[1].context.tree, 1)) >= 2

(***************************************************************************)
(* SpecDecide: ShouldRecursivelyPlanSubquery on a nested query of a        *)
(* statement. Node 2 is the only subquery of the FROM list of the          *)
(* statement; it may have a subquery of its own, node 3.                   *)
(***************************************************************************)
\* what DeferErrorIfCannotPushdownSubquery, SingleRelationRepartitionSubquery
\* under the task-tracker executor, DeferErrorIfQueryNotSupported,
\* ContainsUnionSubquery and RestrictionEquivalenceForPartitionKeys answer
DecideVerdicts ==
    {<<[DefaultVerdict EXCEPT !.pushdownError = pushdownError,
                              !.repartition = repartition,
                              !.supported = supported,
                              !.unionSubquery = unionSubquery,
                              !.equivalent = equivalent]>> :
        pushdownError \in BOOLEAN, repartition \in BOOLEAN,
        supported \in BOOLEAN, unionSubquery \in BOOLEAN,
        equivalent \in BOOLEAN}

DecideRTables ==
    {<<"dist_a">>, <<"local_l">>, <<"ref_r">>, <<"dist_a", "dist_b">>,
     <<"dist_a", "local_l">>}

\* innerLevelsUp is -1 when node 2 has no subquery, else the largest
\* varlevelsup of the Vars of node 3
DecideTree(rels, verdicts, levelsUp, currentOf, innerLevelsUp) ==
    LET inner == IF innerLevelsUp < 0 THEN <<>> ELSE <<SubqueryRTE(3)>>
    IN  <<Select(<<SubqueryRTE(2)>>, <<>>, <<DefaultVerdict>>),
          [Select(RelRTEs(rels) \o inner, <<>>, verdicts)
              EXCEPT !.varlevelsup = levelsUp, !.hasCurrentOf = currentOf],
          IF innerLevelsUp < 0 THEN EmptyQuery
          ELSE [Select(<<RelationRTE("dist_b")>>, <<>>, <<DefaultVerdict>>)
                   EXCEPT !.varlevelsup = innerLevelsUp]>>

DecideTrees ==
    {AssignRTEIdentities(
         DecideTree(rels, verdicts, levelsUp, currentOf, innerLevelsUp), 1) :
        rels \in DecideRTables, verdicts \in DecideVerdicts,
        levelsUp \in 0..1, currentOf \in BOOLEAN, innerLevelsUp \in -1..2}

InitDecide ==
    /\ IdleClassify
    /\ IdleResult
    /\ IdleIdent
    /\ IdleJoin
    /\ IdleFinalize
    /\ IdlePlan
    /\ oQuery \in DecideTrees
    /\ oConfig = DefaultConfig
    /\ oStep = "none"
    /\ oResult = <<>>

\* ShouldRecursivelyPlanSubquery(query, context) on a nested query
Decide ==
    /\ oStep = "none"
    /\ \E node \in Range(PreOrder(oQuery, 1)) \ {1} :
          oResult' = <<[node |-> node,
                        decision |-> ShouldRecursivelyPlanSubquery(
                            PlanPullPushContext(1, oQuery, 1, oConfig, 0), node)]>>
    /\ oStep' = "decided"
    /\ UNCHANGED <<oQuery, oConfig, notPass>>

NextDecide == Decide

SpecDecide == InitDecide /\ [][NextDecide]_vars

\* a Var, PlaceHolderVar or CURRENT OF in the query or in a query inside it
\* that belongs to a query level above the query
RefersToOuterLevel(tree, node) ==
    \E m \in Range(PreOrder(tree, node)) :
        \/ tree[m].hasCurrentOf
        \/ tree[m].varlevelsup > LevelOf(tree, m) - LevelOf(tree, node)

\* C30: the decision on a nested query is: with an outer reference, do not
\* materialize, whatever the oracles would answer; else with pushdown
\* allowed and the relations inside colocated, do not materialize; with
\* pushdown disallowed: when the query needs no distributed planning,
\* materialize; else with a single-relation repartition candidate under the
\* task-tracker executor, do not materialize; else materialize exactly when
\* the query shape is supported
C30_DecisionTable ==
    oStep = "decided" =>
        LET node == oResult[1].node
            decision == oResult[1].decision
            verdict == VerdictOf(oQuery[node], 1)
            context == PlanPullPushContext(1, oQuery, 1, oConfig, 0)
            colocated == RestrictionEquivalenceForPartitionKeys(context, node)
            needsDistributedPlanning == NeedsDistributedPlanning(oQuery, node, TRUE)
        IN  IF RefersToOuterLevel(oQuery, node) THEN decision = "false"
            ELSE IF ~verdict.pushdownError
            THEN /\ colocated => decision = "false"
                 /\ decision \in {"true", "false"}
            ELSE CASE needsDistributedPlanning = "false" -> decision = "true"
                   [] needsDistributedPlanning = "true" ->
                        decision = IF verdict.repartition THEN "false"
                                   ELSE IF verdict.supported THEN "true"
                                   ELSE "false"
                   [] OTHER -> decision = "error"

\* pushdown disallowed on a distributed query that is both a repartition
\* candidate and of a supported shape: not materialized
C30_Witness ==
    /\ oStep = "decided"
    /\ oResult[1].node = 2
    /\ ~RefersToOuterLevel(oQuery, 2)
    /\ VerdictOf(oQuery[2], 1).pushdownError
    /\ VerdictOf(oQuery[2], 1).repartition
    /\ VerdictOf(oQuery[2], 1).supported
    /\ NeedsDistributedPlanning(oQuery, 2, TRUE) = "true"
    /\ oResult[1].decision = "false"

\* an outer reference two levels up in the subquery of a query that mixes
\* local and distributed tables and may not be pushed down: not
\* materialized, and no error
C30_WitnessOuterReference ==
    /\ oStep = "decided"
    /\ oResult[1].node = 2
    /\ oQuery[2].varlevelsup = 0
    /\ ~oQuery[2].hasCurrentOf
    /\ Len(oQuery[2].rtable) = 3
    /\ oQuery[3].varlevelsup = 2
    /\ VerdictOf(oQuery[2], 1).pushdownError
    /\ NeedsDistributedPlanning(oQuery, 2, TRUE) = "error_mix_local_distributed"
    /\ oResult[1].decision = "false"

\* pushdown disallowed on a query over a local table: materialized
C30_WitnessLocal ==
    /\ oStep = "decided"
    /\ oResult[1].node = 2
    /\ VerdictOf(oQuery[2], 1).pushdownError
    /\ ~VerdictOf(oQuery[2], 1).supported
    /\ NeedsDistributedPlanning(oQuery, 2, TRUE) = "false"
    /\ oResult[1].decision = "true"

\* the nested queries of a tree with hasModifyingCTE or hasRecursive set
FlaggedQueries(tree) ==
    {q \in Range(PreOrder(tree, 1)) \ {1} :
        tree[q].hasModifyingCTE \/ tree[q].hasRecursive}

\* C31 (as stated): when a nested query reached by the descent has
\* hasModifyingCTE or hasRecursive set, the pass ends with the
\* feature-not-supported error of the CTE step, returned or raised.
C31_NestedRejectionAborts ==
    (oStep = "pass" /\ FlaggedQueries(oQuery) # {}
        /\ ~oQuery[1].hasModifyingCTE /\ ~oQuery[1].hasRecursive) =>
        \/ oResult[1].error \in {ModifyingCteError, RecursiveCteError}
        \/ oResult[1].context.error \in {ModifyingCteError, RecursiveCteError}

\* a pass over a statement whose subquery has hasRecursive set has ended
\* without error and has materialized the subquery, its CTE list still in
\* place
C31_FlaggedSubqueryMaterialized ==
    /\ oStep = "pass"
    /\ oQuery[2].hasRecursive
    /\ oResult[1].error = ""
    /\ Running(oResult[1].context)
    /\ \E i \in 1..Len(oResult[1].context.subPlanList) :
          LET subPlan == oResult[1].context.subPlanList[i]
          IN  /\ subPlan.node = 2
              /\ subPlan.site = "subquery"
              /\ subPlan.treeAtCall[2].cteList # <<>>
              /\ subPlan.treeAtCall[2].rtable[1].rtekind = "RTE_CTE"

\* the CTEs of the statement whose body refers to an enclosing query
CorrelatedCtes(tree) ==
    {i \in 1..Len(tree[1].cteList) :
        ContainsReferencesToOuterQuery(tree, tree[1].cteList[i].ctequery)}

\* the CTE step has come to a CTE of the statement that refers to an
\* enclosing query: the flags of the statement are off and the CTEs before
\* it have been planned
C32_Case ==
    /\ oStep = "ctes"
    /\ ~oQuery[1].hasModifyingCTE
    /\ ~oQuery[1].hasRecursive
    /\ CorrelatedCtes(oQuery) # {}
    /\ (oConfig.EnableRouterExecution \/ 1 \in CorrelatedCtes(oQuery))

\* C32: a CTE whose body references an enclosing query makes the CTE step
\* raise the feature-not-supported error; when it is raised no sub-plan
\* has been appended for that CTE or a later one, every reference to that
\* CTE is still a CTE reference, no result reader exists for it and the
\* CTE list of the query is still in place
C32_CorrelatedCteRaises ==
    C32_Case =>
        LET context == oResult[1].context
            k == SetMin(CorrelatedCtes(oQuery))
            cte == oQuery[1].cteList[k]
        IN  /\ context.status = "raised"
            /\ context.error = "CTEs that refer to other subqueries are not supported in multi-shard queries"
            /\ Len(context.subPlanList) = k - 1
            /\ \A i \in 1..Len(context.subPlanList) :
                  context.subPlanList[i].node = oQuery[1].cteList[i].ctequery
            /\ context.tree[1].cteList = oQuery[1].cteList
            /\ \A place \in AllPlaces(oQuery) :
                  (/\ EntryAt(oQuery, place).rtekind = "RTE_CTE"
                   /\ EntryAt(oQuery, place).ctename = cte.ctename)
                      => EntryAt(context.tree, place) = EntryAt(oQuery, place)
            /\ \A m \in 1..Len(context.tree) : ~IsResultReader(context.tree[m])
                  \/ context.tree[m].rtable[1].functions[1].resultSubPlanId < k - 1

\* the second CTE refers to an enclosing query and is read by the
\* statement; the first has been planned
C32_Witness ==
    /\ C32_Case
    /\ CorrelatedCtes(oQuery) = {2}
    /\ Len(oResult[1].context.subPlanList) = 1
    /\ \E i \in 1..Len(oQuery[1].rtable) :
          /\ oQuery[1].rtable[i].rtekind = "RTE_CTE"
          /\ oQuery[1].rtable[i].ctename = "c2"

\* the first CTE refers to an enclosing query and is read twice
C32_WitnessFirst ==
    /\ C32_Case
    /\ CorrelatedCtes(oQuery) = {1}
    /\ oResult[1].context.subPlanList = <<>>
    /\ Cardinality({i \in 1..Len(oQuery[1].rtable) :
                      /\ oQuery[1].rtable[i].rtekind = "RTE_CTE"
                      /\ oQuery[1].rtable[i].ctename = "c1"}) = 2

\* what the step taken would have given with router execution enabled
WithRouterExecution ==
    LET context == PlanPullPushContext(1, oQuery, 1, DefaultConfig, 0)
    IN  IF oStep = "ctes" THEN PlanPullPushCTEs(context, 1)
        ELSE PlanPullPushSubqueries(context, 1)

\* a step has been taken with router execution disabled
C33_Case ==
    /\ oStep \in {"ctes", "pass"}
    /\ ~oConfig.EnableRouterExecution

\* C33: with router execution disabled, the first attempt to materialize a
\* CTE or a subquery raises the error of its kind: no sub-plan has been
\* appended, and for a subquery the tree is as it stood when the attempt
\* was made, the node not overwritten; a step that attempts no
\* materialization ends as it does with router execution enabled
C33_RouterDisabledRaises ==
    C33_Case =>
        LET enabled == WithRouterExecution
            context == oResult[1].context
        IN  IF enabled.context.subPlanList = <<>>
            THEN /\ oResult[1].error = enabled.error
                 /\ context = [enabled.context EXCEPT !.config = oConfig]
            ELSE LET attempt == enabled.context.subPlanList[1]
                 IN  /\ context.status = "raised"
                     /\ context.subPlanList = <<>>
                     /\ context.error =
                           IF attempt.site = "cte"
                           THEN "cannot handle CTEs when the router executor is disabled"
                           ELSE "cannot handle complex subqueries when the router executor is disabled"
                     /\ attempt.site # "cte" =>
                           /\ context.tree = attempt.treeAtCall
                           /\ ~IsResultReader(context.tree[attempt.node])

\* the pass has come to a subquery to materialize with router execution
\* disabled
C33_Witness ==
    /\ C33_Case
    /\ oStep = "pass"
    /\ WithRouterExecution.context.subPlanList # <<>>
    /\ WithRouterExecution.context.subPlanList[1].site = "subquery"
    /\ oResult[1].context.status = "raised"

\* the first materialization attempted is of a CTE
C33_WitnessCte ==
    /\ C33_Case
    /\ WithRouterExecution.context.subPlanList # <<>>
    /\ WithRouterExecution.context.subPlanList[1].site = "cte"
    /\ oResult[1].context.status = "raised"

\* the first materialization attempted is by the outer-join step
C33_WitnessSteps ==
    /\ C33_Case
    /\ WithRouterExecution.context.subPlanList # <<>>
    /\ WithRouterExecution.context.subPlanList[1].site = "outer_join"
    /\ oResult[1].context.status = "raised"

\* no materialization is attempted and the pass ends without error
C33_WitnessUnaffected ==
    /\ C33_Case
    /\ oStep = "pass"
    /\ WithRouterExecution.context.subPlanList = <<>>
    /\ Running(oResult[1].context)
    /\ oResult[1].error = ""
    /\ \E m \in 2..Len(oQuery) : oQuery[m].rtable # <<>>

\* the entries of a tree for distributed partitioned tables
PartitionedPlaces(tree, root) ==
    {place \in Range(ExtractRangeTableEntryWalker(tree, root)) :
        /\ EntryAt(tree, place).rtekind = "RTE_RELATION"
        /\ IsDistributedTable(EntryAt(tree, place).relid)
        /\ PartitionedTable(EntryAt(tree, place).relid)}

\* the entry is to be expanded to its partitions, or is not
Expanded(rangeTableEntry, on) ==
    /\ rangeTableEntry.inh = on
    /\ rangeTableEntry.relkind = IF on THEN "RELKIND_PARTITIONED_TABLE"
                                 ELSE "RELKIND_RELATION"

\* this step is a run of the host planner by the running call, in the
\* first pass or in the re-planning block, that has not raised
HostPlannerRan ==
    /\ frames # <<>>
    /\ Len(frames') = Len(frames)
    /\ Top(frames).needsDistributedPlanning
    /\ \/ Top(frames).pc = "standard_planner" /\ Top(frames').pc = "create_plan"
       \/ Top(frames).pc = "replan" /\ Top(frames').pc = "select_plan"

\* C34: every entry for a distributed partitioned table of the tree handed
\* to the host planner is set not to expand when the host planner is
\* called, in the first pass and in the re-planning pass, and it is so in
\* every relation callback of that run; when the planner returns, the
\* entries of the tree that was planned are set to expand again
C34_ExpansionOffWhilePlanning ==
    /\ [](\A i \in 1..Len(frames) :
             frames[i].pc = "standard_planner" =>
                 \A place \in PartitionedPlaces(frames[i].parse, frames[i].root) :
                     Expanded(EntryAt(frames[i].parse, place), FALSE))
    /\ [][HostPlannerRan =>
             LET frame == Top(frames')
                 recorded == CurrentPlannerRestrictionContext(
                                 plannerRestrictionContextList').relationRestrictionList
             IN  /\ \A place \in PartitionedPlaces(frame.parse, frame.root) :
                       Expanded(EntryAt(frame.parse, place), FALSE)
                 /\ \A i \in 1..Len(recorded) :
                       (/\ recorded[i].distributedRelation
                        /\ PartitionedTable(recorded[i].relationId))
                           => Expanded(recorded[i].rte, FALSE)]_vars
    /\ [](\A i \in 1..Len(lastExit) :
             (/\ lastExit[i].status = "returned"
              /\ lastExit[i].frame.needsDistributedPlanning)
                 => \A place \in PartitionedPlaces(lastExit[i].frame.parse,
                                                   lastExit[i].frame.root) :
                        Expanded(EntryAt(lastExit[i].frame.parse, place), TRUE))

\* a top-level call that planned its tree twice has returned, and the tree
\* holds a distributed partitioned table
C34_Witness ==
    /\ frames = <<>>
    /\ lastExit # <<>>
    /\ lastExit[1].status = "returned"
    /\ lastExit[1].frame.passes # <<>>
    /\ lastExit[1].frame.passes[1].done > 0
    /\ PartitionedPlaces(lastExit[1].frame.parse, 1) # {}
    /\ \A place \in PartitionedPlaces(lastExit[1].frame.parse, 1) :
          Expanded(EntryAt(lastExit[1].frame.parse, place), TRUE)

\* the re-planning block is about to hand the tree on: the partitioned
\* table of the tree planned first is set not to expand
C34_WitnessReplan ==
    /\ frames # <<>>
    /\ Top(frames).pc = "replan"
    /\ PartitionedPlaces(Top(frames).parse, 1) # {}
    /\ PartitionedPlaces(Top(frames).originalQuery[1], 1) # {}
    /\ \A place \in PartitionedPlaces(Top(frames).parse, 1) :
          Expanded(EntryAt(Top(frames).parse, place), FALSE)

(***************************************************************************)
(* The restriction hooks, one callback at a time (SpecHook).  The host     *)
(* planner calls multi_relation_restriction_hook and                       *)
(* multi_join_restriction_hook any number of times, in the order it        *)
(* chooses, while one context is the current one.  oResult is the          *)
(* plannerRestrictionContextList of a nested planner call (the current     *)
(* context first, the caller's after it) and oQuery the range-table        *)
(* entries the relation hook has been called with so far.                  *)
(***************************************************************************)
\* most callbacks made on one context
MaxCallbacks == 4

\* the entries the host planner calls the relation hook with
HookEntries ==
    {RelationRTE(relid) : relid \in {"dist_a", "append_c", "ref_r", "local_l"}}
        \cup {SubqueryRTE(2), CteRTE("c1", 0)}

InitHook ==
    /\ IdleClassify
    /\ IdleResult
    /\ IdleIdent
    /\ IdleJoin
    /\ IdleFinalize
    /\ IdlePlan
    /\ oQuery = <<>>
    /\ oConfig = DefaultConfig
    /\ oStep = "hooks"
    /\ oResult = CreateAndPushPlannerRestrictionContext(
                     CreateAndPushPlannerRestrictionContext(<<>>))

\* multi_relation_restriction_hook(root, relOptInfo, index, rte)
RelationCallback(rte) ==
    /\ oStep = "hooks"
    /\ Len(oQuery) + Len(oResult[1].joinRestrictionList) < MaxCallbacks
    /\ oResult' = <<RelationRestrictionHook(
                        CurrentPlannerRestrictionContext(oResult), rte)>>
                    \o Tail(oResult)
    /\ oQuery' = Append(oQuery, rte)
    /\ UNCHANGED <<oConfig, oStep, notPass>>

\* multi_join_restriction_hook(root, joinrel, outerrel, innerrel, jointype, extra)
JoinCallback(jointype) ==
    /\ oStep = "hooks"
    /\ Len(oQuery) + Len(oResult[1].joinRestrictionList) < MaxCallbacks
    /\ oResult' = <<JoinRestrictionHook(
                        CurrentPlannerRestrictionContext(oResult), 1, jointype)>>
                    \o Tail(oResult)
    /\ UNCHANGED <<oQuery, oConfig, oStep, notPass>>

NextHook ==
    \/ \E rte \in HookEntries : RelationCallback(rte)
    \/ \E jointype \in {"JOIN_INNER", "JOIN_LEFT"} : JoinCallback(jointype)

SpecHook == InitHook /\ [][NextHook]_vars

\* the relations recorded in the current context
RecordedRelations == oResult[1].relationRestrictionList

\* the callbacks made so far for base-relation entries
RelationCallbacks == SelectSeq(oQuery, LAMBDA rte : rte.rtekind = "RTE_RELATION")

\* the relation list holds one entry per callback made for a base-relation
\* entry, in the order of the calls; the two flags say whether a
\* distributed and whether a local relation is recorded
RecordsFollowCallbacks ==
    /\ Len(RecordedRelations) = Len(RelationCallbacks)
    /\ \A i \in 1..Len(RecordedRelations) :
          /\ RecordedRelations[i].rte = RelationCallbacks[i]
          /\ RecordedRelations[i].relationId = RelationCallbacks[i].relid
          /\ RecordedRelations[i].distributedRelation
                = IsDistributedTable(RelationCallbacks[i].relid)
    /\ oResult[1].hasDistributedRelation
          = (\E i \in 1..Len(RecordedRelations) :
                RecordedRelations[i].distributedRelation)
    /\ oResult[1].hasLocalRelation
          = (\E i \in 1..Len(RecordedRelations) :
                ~RecordedRelations[i].distributedRelation)

\* a callback for an entry of another kind changes nothing; no flag goes
\* back to the value it had before it changed; the caller's context is
\* left alone
CallbacksAccumulate ==
    /\ (/\ Len(oQuery') > Len(oQuery)
        /\ oQuery'[Len(oQuery')].rtekind # "RTE_RELATION") => oResult' = oResult
    /\ oResult[1].hasDistributedRelation => oResult'[1].hasDistributedRelation
    /\ oResult[1].hasLocalRelation => oResult'[1].hasLocalRelation
    /\ ~oResult[1].allReferenceTables => ~oResult'[1].allReferenceTables
    /\ Tail(oResult') = Tail(oResult)

C35_WitnessFlagStaysOff ==
    /\ oStep = "hooks"
    /\ Len(RecordedRelations) = 2
    /\ RecordedRelations[1].relationId = "dist_a"
    /\ RecordedRelations[2].relationId = "ref_r"
    /\ ~oResult[1].allReferenceTables

\* the result readers of the rewritten query of a returned top-level call
ReadersOfReturnedQuery ==
    LET final == lastExit[1].frame.originalQuery[1]
    IN  {m \in Range(PreOrder(final, 1)) : IsResultReader(final[m])}

\* the sub-plan stands for the subtree the reader in node m has replaced: a
\* subquery is overwritten in place, the references to a CTE become
\* subqueries over new nodes
StandsFor(subPlan, m) ==
    \/ subPlan.site # "cte" /\ subPlan.node = m
    \/ subPlan.site = "cte" /\ m > Len(pInput[1].tree)

\* the result readers of the returned query find their sub-plans in the
\* returned descriptor, and the sub-plans made under the plan id of the
\* call have result locations of their own
PlaceholdersResolve ==
    LET frame == lastExit[1].frame
        final == frame.originalQuery[1]
        plan == frame.plan[1]
        made == {i \in 1..Len(subPlanLog) : subPlanLog[i].planId = frame.planId}
    IN  /\ \A m \in ReadersOfReturnedQuery :
              LET reader == final[m].rtable[1].functions[1]
              IN  /\ reader.resultSubPlanId + 1 <= Len(plan.subPlanList)
                  /\ LET subPlan == plan.subPlanList[reader.resultSubPlanId + 1]
                     IN  /\ subPlan.planId = reader.resultPlanId
                         /\ subPlan.subPlanId = reader.resultSubPlanId
                         /\ StandsFor(subPlan, m)
        /\ \A i, j \in made :
              subPlanLog[i].node # subPlanLog[j].node =>
                  subPlanLog[i].subPlanId # subPlanLog[j].subPlanId

\* C36 (as stated): in the plan finally returned every result reader of the
\* rewritten query has its sub-plan in the sub-plan list of the descriptor
\* at the index of its sub-plan id, and no two readers that stand for
\* different materialized subtrees name the same (plan id, sub-plan id),
\* also when a re-planning pass has produced further sub-plans
C36_PlaceholdersResolve ==
    (TopLevelExit /\ lastExit[1].status = "returned"
        /\ lastExit[1].frame.plan # <<>>) => PlaceholdersResolve

\* the part of C36 the code keeps: when only the first pass has produced
\* sub-plans
C36_FirstPassPlaceholdersResolve ==
    (TopLevelExit /\ lastExit[1].status = "returned"
        /\ lastExit[1].frame.plan # <<>>
        /\ \A p \in 2..Len(lastExit[1].frame.passes) :
              lastExit[1].frame.passes[p].subPlanList = <<>>)
        => PlaceholdersResolve

\* a plan has been returned whose query reads the result of a sub-plan of
\* the second pass at (plan id, 0), where the descriptor holds the sub-plan
\* of the first pass
C36_ReaderOfSecondPass ==
    /\ TopLevelExit
    /\ lastExit[1].status = "returned"
    /\ lastExit[1].frame.plan # <<>>
    /\ Len(lastExit[1].frame.passes) = 3
    /\ \E m \in ReadersOfReturnedQuery :
          /\ lastExit[1].frame.passes[2].subPlanList[1].node = m
          /\ lastExit[1].frame.plan[1].subPlanList[1].node # m
          /\ lastExit[1].frame.originalQuery[1][m].rtable[1].functions[1].resultSubPlanId = 0

\* a plan with two sub-plans of the first pass has been returned
C36_TwoSubPlansReturned ==
    /\ TopLevelExit
    /\ lastExit[1].status = "returned"
    /\ lastExit[1].frame.plan # <<>>
    /\ Len(lastExit[1].frame.plan[1].subPlanList) = 2
    /\ Cardinality(ReadersOfReturnedQuery) = 2

\* the JoinExprs of the FROM clause of the query the step has worked on
JoinExprsOfFromList(tree) ==
    UNION {JoinExprsOf(item) : item \in Range(tree[1].fromlist)}

\* the join, as the tree stands, is an outer join whose outer side recurs
\* while its inner side holds a distributed relation
RecurringOuterJoin(tree, joinExpr) ==
    LET leftRecurs == ~JoinTreeContainsDistributedTableRTE(tree, 1, joinExpr.larg)
        rightRecurs == ~JoinTreeContainsDistributedTableRTE(tree, 1, joinExpr.rarg)
    IN  CASE joinExpr.jointype = "JOIN_LEFT" -> leftRecurs /\ ~rightRecurs
          [] joinExpr.jointype = "JOIN_RIGHT" -> ~leftRecurs /\ rightRecurs
          [] joinExpr.jointype = "JOIN_FULL" -> leftRecurs # rightRecurs
          [] OTHER -> FALSE

\* the leaves of the FROM clause that are distributed base tables
DistributedBaseLeaves(tree) ==
    {i \in 1..Len(tree[1].rtable) : IsDistributedTableRTE(tree[1].rtable[i])}

\* C37 (as stated): after the outer-join step no LEFT join of the join tree
\* has a recurring left side and a right side that still holds a
\* distributed relation, no RIGHT join a recurring right side and such a
\* left side, and no FULL join exactly one recurring side, also when the
\* non-recurring side holds a distributed base table directly
C37_NoRecurringOuterJoinLeft ==
    (jContext # <<>>) =>
        \A joinExpr \in JoinExprsOfFromList(jContext[1].tree) :
            ~RecurringOuterJoin(jContext[1].tree, joinExpr)

\* the part of C37 the code keeps: a single join that is not a FULL join,
\* every distributed relation inside a subquery
C37_SingleJoinOverSubqueries ==
    (/\ jContext # <<>>
     /\ DistributedBaseLeaves(jQuery) = {}
     /\ Cardinality(JoinExprsOfFromList(jQuery)) = 1
     /\ \A joinExpr \in JoinExprsOfFromList(jQuery) :
           joinExpr.jointype # "JOIN_FULL") =>
        \A joinExpr \in JoinExprsOfFromList(jContext[1].tree) :
            ~RecurringOuterJoin(jContext[1].tree, joinExpr)

\* the step has finished on (reference table LEFT JOIN subquery) LEFT JOIN
\* subquery, both subqueries over distributed tables: the inner join has
\* been resolved by materializing its right side, which has made the left
\* side of the outer join recurring after that join had been looked at
C37_NestedLeft ==
    /\ jContext # <<>>
    /\ DistributedBaseLeaves(jQuery) = {}
    /\ Len(jQuery[1].fromlist) = 1
    /\ LET joinExpr == jQuery[1].fromlist[1]
       IN  /\ joinExpr.jointype = "JOIN_LEFT"
           /\ joinExpr.larg.tag = "JoinExpr"
           /\ joinExpr.larg.jointype = "JOIN_LEFT"
           /\ ~RecurringOuterJoin(jQuery, joinExpr)
           /\ RecurringOuterJoin(jQuery, joinExpr.larg)
           /\ Len(jContext[1].subPlanList) = 1
           /\ ~RecurringOuterJoin(jContext[1].tree, joinExpr.larg)
           /\ RecurringOuterJoin(jContext[1].tree, joinExpr)

\* the step has finished on a reference table LEFT JOIN a distributed
\* table: nothing was materialized and the join is as it was
C37_BaseTableLeft ==
    /\ jContext # <<>>
    /\ jQuery[1].fromlist = <<JoinExpr("JOIN_LEFT", RangeTblRef(1), RangeTblRef(2))>>
    /\ jQuery[1].rtable[1].relid = "ref_r"
    /\ jQuery[1].rtable[2].relid = "dist_a"
    /\ jContext[1].subPlanList = <<>>
    /\ jContext[1].tree = jQuery
    /\ RecurringOuterJoin(jContext[1].tree, jQuery[1].fromlist[1])

\* the step has finished on a subquery over a distributed table FULL JOIN a
\* reference table: nothing was materialized
C37_FullJoinLeft ==
    /\ jContext # <<>>
    /\ jQuery[1].fromlist = <<JoinExpr("JOIN_FULL", RangeTblRef(1), RangeTblRef(2))>>
    /\ jQuery[1].rtable[1].rtekind = "RTE_SUBQUERY"
    /\ DistributedBaseLeaves(jQuery) = {}
    /\ jContext[1].subPlanList = <<>>
    /\ RecurringOuterJoin(jContext[1].tree, jQuery[1].fromlist[1])

\* outer joins with a recurring outer side have been resolved by
\* materializing subqueries
C37_Resolved ==
    /\ jContext # <<>>
    /\ DistributedBaseLeaves(jQuery) = {}
    /\ \E joinExpr \in JoinExprsOfFromList(jQuery) :
          /\ RecurringOuterJoin(jQuery, joinExpr)
          /\ joinExpr.jointype = "JOIN_RIGHT"
          /\ ~RecurringOuterJoin(jContext[1].tree, joinExpr)

(***************************************************************************)
(* SpecChain: the planner machine on statements whose result queries the   *)
(* outside components may reject, every host-planner run and every plan    *)
(* builder returning.  A call that is in progress goes on (weak fairness   *)
(* on the steps of the machine); the chain of re-planning passes of one    *)
(* call is followed up to MaxPasses passes.                                *)
(***************************************************************************)
\* most passes of one call of CreateDistributedPlan that are followed
MaxPasses == 4

ReaderAnswers == {"accept", "pushdown_error", "not_equivalent"}

\* the statements: the subquery or CTE is materialized in the first pass,
\* or in the second, or not at all
ChainTrees ==
    {PlanTree(shape, rootVerdicts, <<DefaultVerdict>>, <<DefaultVerdict>>) :
        shape \in {"plain", "local", "update"},
        rootVerdicts \in {<<Reject>>, <<DefaultVerdict>>}}
    \cup
    {PlanTree(shape, rootVerdicts, <<[subVerdict EXCEPT !.reader = answer]>>,
              <<DefaultVerdict>>) :
        shape \in {"from_subquery", "cte", "left_join", "recursive_cte"},
        rootVerdicts \in {<<Reject>>, <<Reject, DefaultVerdict>>},
        subVerdict \in {DefaultVerdict, Materialize},
        answer \in ReaderAnswers}
    \cup
    {PlanTree(shape, <<Reject>>, subVerdicts,
              <<[deepVerdict EXCEPT !.reader = answer]>>) :
        shape \in {"nested_subquery", "union"},
        subVerdicts \in {<<DefaultVerdict>>, <<DefaultVerdict, Materialize>>,
                         <<NonColocated>>},
        deepVerdict \in {DefaultVerdict, Materialize},
        answer \in ReaderAnswers}

\* the re-planning block, as long as the chain is followed
ReplanWithinBound ==
    /\ frames # <<>>
    /\ Len(Top(frames).passes) < MaxPasses
    /\ Replan("ok")

NextChain ==
    \/ \E tree \in ChainTrees : Plan(tree, <<>>, FALSE)
    \/ StandardPlanner("ok")
    \/ CreateDistributedPlan("ok")
    \/ CreateDistributedSelectPlan
    \/ PlanPullPushSubqueriesStep
    \/ ReplanWithinBound
    \/ LogicalPlan("ok")
    \/ FinishPlan
    \/ EndTry
    \/ Catch

\* the steps of a call other than the pass and the re-planning
StepsBetweenPasses ==
    \/ StandardPlanner("ok")
    \/ CreateDistributedPlan("ok")
    \/ CreateDistributedSelectPlan
    \/ LogicalPlan("ok")
    \/ FinishPlan
    \/ EndTry
    \/ Catch

\* a pass, or the re-planning between two passes
PassOrReplan == PlanPullPushSubqueriesStep \/ ReplanWithinBound

\* the innermost call stands before a pass or before a re-planning within
\* the bound: PassOrReplan is enabled
PassDue ==
    /\ frames # <<>>
    /\ \/ Top(frames).pc = "pass"
       \/ Top(frames).pc = "replan" /\ Len(Top(frames).passes) < MaxPasses

\* every oracle call and every nested call returns: a call that has been
\* entered takes its next step.  The weak fairness of PassOrReplan is
\* written out, []<>~ENABLED <<A>>_vars \/ []<><<A>>_vars, with PassDue as
\* its enabling condition
SpecChain ==
    /\ Init /\ [][NextChain]_vars
    /\ WF_vars(StepsBetweenPasses)
    /\ ([]<>~PassDue \/ []<><<PassOrReplan>>_vars)

\* the outside components accept the result query of every query of the
\* statement
ReadersAccepted ==
    /\ pInput # <<>>
    /\ \A m \in 1..Len(pInput[1].tree) :
          \A i \in 1..Len(pInput[1].tree[m].verdicts) :
              pInput[1].tree[m].verdicts[i].reader = "accept"

\* the sub-plans the passes of a call have produced
SubPlansOfPasses(frame) ==
    Concat([p \in 1..Len(frame.passes) |-> frame.passes[p].subPlanList])

\* a top-level call that returned a descriptor did so after a pass without
\* sub-plans or an accepting router, and no pass has materialized a result
\* reader or a node a second time
ChainEnded ==
    (TopLevelExit /\ lastExit[1].status = "returned"
        /\ lastExit[1].frame.plan # <<>> /\ lastExit[1].frame.passes # <<>>) =>
        LET frame == lastExit[1].frame
            subPlans == SubPlansOfPasses(frame)
        IN  /\ \/ Top(frame.passes).subPlanList = <<>>
               \/ /\ frame.config.EnableRouterExecution
                  /\ VerdictOf(frame.originalQuery[1][1],
                               Len(frame.passes) + 1).router = "accept"
            /\ \A i \in 1..Len(subPlans) :
                  /\ ~IsResultReader(subPlans[i].treeAtCall[subPlans[i].node])
                  /\ \A j \in 1..Len(subPlans) :
                        subPlans[i].node = subPlans[j].node => i = j

\* no call is in its re-planning block after a pass that has materialized a
\* result reader
NoReaderMaterialized ==
    \A d \in 1..Len(frames) :
        \A p \in 1..Len(frames[d].passes) :
            \A i \in 1..Len(frames[d].passes[p].subPlanList) :
                LET subPlan == frames[d].passes[p].subPlanList[i]
                IN  ~IsResultReader(subPlan.treeAtCall[subPlan.node])

C38_ReaderChain ==
    /\ frames # <<>>
    /\ Len(frames[1].passes) = MaxPasses
    /\ \A p \in 2..(MaxPasses - 1) :
          /\ Len(frames[1].passes[p].subPlanList) = 1
          /\ LET subPlan == frames[1].passes[p].subPlanList[1]
             IN  IsResultReader(subPlan.treeAtCall[subPlan.node])


(***************************************************************************)
(* C39: the pass under subquery pushdown.                                  *)
(***************************************************************************)
\* a call of a session with subquery pushdown enabled stands before its
\* pass
PushdownPassDue ==
    /\ frames # <<>>
    /\ Top(frames).pc = "pass"
    /\ Top(frames).config.SubqueryPushdown

\* the pass of a frame has changed nothing: its tree is the tree the pass
\* started with and its sub-plan list is empty
PassLeftNothing(frame) ==
    \A p \in 1..Len(frame.passes) :
        /\ frame.passes[p].subPlanList = <<>>
        /\ frame.passes[p].done = 0
        /\ frame.originalQuery = <<frame.passes[p].start>>

\* C39: with subquery pushdown enabled the pass is a no-op for every query:
\* it returns without an error (control goes on to the logical planner, not
\* to the handler), appends no sub-plan, leaves the tree as it was (CTE list
\* and subqueries included, also when the query has a recursive or a
\* modifying CTE), makes no planner call, and no re-planning follows: the
\* call has one pass at most
C39_PushdownPassIsNoOp ==
    /\ [][PushdownPassDue =>
             /\ frames' = SetTop(frames,
                                 [Top(frames) EXCEPT !.pc = "logical_plan"])
             /\ UNCHANGED <<plannerRestrictionContextList, NextPlanId,
                            subPlanLog, lastExit>>]_vars
    /\ [](\A d \in 1..Len(frames) :
             frames[d].config.SubqueryPushdown =>
                 /\ Len(frames[d].passes) <= 1
                 /\ frames[d].pc \notin {"replan", "await"}
                 /\ PassLeftNothing(frames[d]))
    /\ [](subPlanLog # <<>> => ~pConfig.SubqueryPushdown)

\* under subquery pushdown a query with a modifying or a recursive CTE has
\* gone through its pass and is handed to the logical planner with its CTE
\* list
C39_Witness ==
    /\ frames # <<>>
    /\ Top(frames).pc = "logical_plan"
    /\ Top(frames).config.SubqueryPushdown
    /\ Len(Top(frames).passes) = 1
    /\ LET query == Top(frames).originalQuery[1][Top(frames).root]
       IN  /\ query.cteList # <<>>
           /\ query.hasModifyingCTE \/ query.hasRecursive

\* under subquery pushdown a query has gone through its pass with a FROM
\* subquery that cannot be pushed down, which the pass materializes when
\* the mode is off
C39_WitnessSubquery ==
    /\ frames # <<>>
    /\ Top(frames).pc = "logical_plan"
    /\ Top(frames).config.SubqueryPushdown
    /\ LET frame == Top(frames)
           tree == frame.originalQuery[1]
       IN  /\ Len(frame.passes) = 1
           /\ \E i \in 1..Len(tree[frame.root].rtable) :
                 LET rangeTableEntry == tree[frame.root].rtable[i]
                 IN  /\ rangeTableEntry.rtekind = "RTE_SUBQUERY"
                     /\ VerdictOf(tree[rangeTableEntry.subquery], 1).pushdownError
                     /\ VerdictOf(tree[rangeTableEntry.subquery], 1).supported


(***************************************************************************)
(* C40: the order of planning and overwriting in RecursivelyPlanQuery.     *)
(***************************************************************************)
\* the tree of a frame as its pass p has left it
TreeAfterPass(frame, p) ==
    IF p < Len(frame.passes) THEN frame.passes[p + 1].start
    ELSE frame.originalQuery[1]

\* the steps that choose what they plan by the distributed relations in it
RelationDrivenSites == {"set_operation", "non_colocated_subquery", "outer_join"}

\* the nested call of a waiting caller plans the node as it stood when
\* RecursivelyPlanQuery was entered (for the first sub-plan of a pass: as
\* the pass found it), and is forced to be distributed when that body holds
\* a result reader
PlansBodyBeforeOverwrite ==
    \A d \in 1..(Len(frames) - 1) :
        frames[d].pc = "await" =>
            LET subPlan == frames[d].pending[1]
                callee == frames[d + 1]
            IN  /\ callee.input = subPlan.treeAtCall
                /\ callee.root = subPlan.node
                /\ subPlan.subPlanId = 0 =>
                      callee.input = Top(frames[d].passes).start
                /\ ContainsResultFunction(callee.input, callee.root)
                      => callee.needsDistributedPlanning

\* after the pass the node of every materialized subquery is the result
\* query of its sub-plan: one range-table entry, the result function, and
\* no base relation
OverwrittenInPlace ==
    \A d \in 1..Len(frames) :
        \A p \in 1..Len(frames[d].passes) :
            \A i \in 1..Len(frames[d].passes[p].subPlanList) :
                LET subPlan == frames[d].passes[p].subPlanList[i]
                    after == TreeAfterPass(frames[d], p)
                IN  subPlan.site # "cte" =>
                        /\ after[subPlan.node] =
                              BuildSubPlanResultQuery(
                                  subPlan.treeAtCall[subPlan.node],
                                  subPlan.planId, subPlan.subPlanId)
                        /\ Len(after[subPlan.node].rtable) = 1
                        /\ after[subPlan.node].rtable[1].rtekind = "RTE_FUNCTION"
                        /\ after[subPlan.node].rtable[1].functions[1].funcid
                              = "read_records_file"
                        /\ ~QueryContainsDistributedTableRTE(after, subPlan.node)

\* within one pass no node is materialized twice, and the steps driven by
\* the distributed relations never plan a result reader
MaterializedOncePerPass ==
    \A d \in 1..Len(frames) :
        \A p \in 1..Len(frames[d].passes) :
            LET subPlanList == frames[d].passes[p].subPlanList
            IN  \A i \in 1..Len(subPlanList) :
                    /\ \A j \in 1..Len(subPlanList) :
                          subPlanList[i].node = subPlanList[j].node => i = j
                    /\ subPlanList[i].site \in RelationDrivenSites =>
                          ~IsResultReader(
                              subPlanList[i].treeAtCall[subPlanList[i].node])

\* C40: materializing a subquery plans a copy of the body and afterwards
\* overwrites the node in place with the result reader; the overwritten
\* node holds no base relation (its one range-table entry is the result
\* function), so within the pass the set-operation, non-colocated-join and
\* outer-join steps never choose it again and no node is materialized
\* twice; the planning of a body that holds a result reader is forced to be
\* distributed
C40_PlanThenOverwrite ==
    /\ PlansBodyBeforeOverwrite
    /\ OverwrittenInPlace
    /\ MaterializedOncePerPass

\* a caller waits for the plan of a body that holds a result reader and
\* would not need distributed planning by itself: the call is forced to be
\* distributed
C40_Witness ==
    /\ Len(frames) >= 2
    /\ frames[1].pc = "await"
    /\ frames[1].pending[1].forceDistributed
    /\ frames[2].needsDistributedPlanning
    /\ NeedsDistributedPlanning(frames[2].input, frames[2].root, TRUE) = "false"

\* a pass has ended with two sub-plans, the second made by the
\* set-operation step
C40_WitnessSetOperation ==
    /\ frames # <<>>
    /\ frames[1].passes # <<>>
    /\ Len(frames[1].passes[1].subPlanList) >= 2
    /\ frames[1].passes[1].subPlanList[2].site = "set_operation"

\* a pass has ended with a sub-plan made by the outer-join step
C40_WitnessOuterJoin ==
    /\ frames # <<>>
    /\ frames[1].passes # <<>>
    /\ \E i \in 1..Len(frames[1].passes[1].subPlanList) :
          frames[1].passes[1].subPlanList[i].site = "outer_join"

\* a pass has ended with a sub-plan made by the non-colocated-join step
C40_WitnessNonColocated ==
    /\ frames # <<>>
    /\ frames[1].passes # <<>>
    /\ \E i \in 1..Len(frames[1].passes[1].subPlanList) :
          frames[1].passes[1].subPlanList[i].site = "non_colocated_subquery"

=============================================================================
